---- MODULE Spec2Model ----
(***************************************************************************)
(* helix-dashboard backend: the type system (core/helix_types.rs), the     *)
(* request parameter merge (web/params.rs) and the JSON key canonicalizer  *)
(* (web/utils.rs).                                                         *)
(*                                                                         *)
(* Texts are sequences of one-character strings, so that prefix, suffix    *)
(* and slicing are computed the way the Rust code computes them.           *)
(***************************************************************************)
EXTENDS Integers, Sequences, FiniteSets, TLC

VARIABLES
    ty_pc,        \* position of the type-text round trip
    ty_text,      \* the text handed to HelixType::from_str
    ty_wraps,     \* how many wrappers the text has received
    ty_parsed,    \* Result of from_str(ty_text)
    ty_shown,     \* Display of the parsed type
    ty_reparsed,  \* Result of from_str(ty_shown)
    ty_bracket,   \* Result of from_str("[" + ty_text + "]")
    ty_legacy,    \* Result of from_str("Array(" + ty_text + ")")
    co_pc,        \* position of the coercion
    co_value,     \* the text handed to to_json
    co_affixes,   \* how many characters were added around the chosen text
    co_type,      \* the HelixType handed to to_json
    co_result,    \* Result of to_json(co_value, co_type)
    so_pc,        \* position of the canonicalization
    so_input,     \* the Value handed to sort_json_object
    so_depth,     \* how many objects and arrays enclose the first value
    so_output,    \* sort_json_object(so_input)
    me_pc,        \* position of the parameter merge
    me_query,     \* query_params: HashMap<String, String>
    me_body,      \* body: Option<&Value>
    me_types,     \* param_types: HashMap<String, String>
    me_result,    \* the Value merge_parameters returned
    ar_pc,        \* position of the array coercion
    ar_items,     \* the texts of the list's elements
    ar_sep,       \* the text written between two elements
    ar_bracket,   \* Result of to_json("[" + elements + "]", [F64])
    ar_list,      \* Result of to_json(elements, [F64])
    sc_pc,        \* position of the schema parse
    sc_lines,     \* the lines of the schema text
    sc_mode,      \* where the writer of the text stands: top, node, edge, props
    sc_noise,     \* how many lines outside the grammar the text has received
    sc_malformed, \* whether one of them looks like a block header
    sc_blocks,    \* the blocks the writer has written, as the writer means them
    sc_readable,  \* whether fs::read_to_string returned the text
    sc_result,    \* Result of SchemaInfo::from_file
    qp_pc,        \* position of the query-definition parse
    qp_name,      \* the query name of the line, with what the writer expects
    qp_items,     \* the parameter items of the line, with what the writer expects
    qp_shape,     \* full, blank (a blank parameter list) or incomplete
    qp_result,    \* Result of QueryDefinition::from_file
    ex_pc,        \* position of execute_query_handler: idle, fetching, querying, done
    ex_name,      \* Path(query_name)
    ex_query,     \* Query(query_params)
    ex_body,      \* the request body, NoBody when there is none
    ex_fetch,     \* Result of fetch_cloud_introspect
    ex_types,     \* the HashMap returned by get_query_param_types
    ex_sent,      \* params_value, as handed to helix_db.query
    ex_reply,     \* Result of helix_db.query
    ex_response,  \* the Json the handler returns
    cu_pc,        \* the loop SchemaInfo::from_content stands in: idle, top, node, vector, edge, done
    cu_lines,     \* content.lines()
    cu_i,         \* the line cursor (i, *index)
    cu_schema,    \* nodes, edges and vectors pushed so far
    cu_block,     \* the locals of the parse_from_lines call under way
    cu_result,    \* Result of SchemaInfo::from_content
    cu_steps,     \* loop iterations and loop exits so far
    hd_pc,        \* a schema, endpoints or inspection request: idle, awaiting, done
    hd_handler,   \* the handler the request is routed to
    hd_source,    \* app_state.data_source
    hd_call,      \* the file read or HTTP GET the handler awaits
    hd_outcome,   \* what that call returned
    hd_response,  \* the Json the handler returns
    cc_pc,        \* per concurrent execute request: idle, fetching, querying, done
    cc_name,      \* per request: Path(query_name)
    cc_query,     \* per request: Query(query_params)
    cc_body,      \* per request: the body
    cc_fetch,     \* per request: what fetch_cloud_introspect returned to it
    cc_sent,      \* per request: params_value
    cc_reply,     \* per request: what helix_db.query returned to it
    cc_response,  \* per request: the Json handed back
    cc_stderr     \* the lines the process has written with eprintln!

ty_vars ==
    <<ty_pc, ty_text, ty_wraps, ty_parsed, ty_shown, ty_reparsed, ty_bracket,
      ty_legacy>>

co_vars == <<co_pc, co_value, co_affixes, co_type, co_result>>

so_vars == <<so_pc, so_input, so_depth, so_output>>

me_vars == <<me_pc, me_query, me_body, me_types, me_result>>

ar_vars == <<ar_pc, ar_items, ar_sep, ar_bracket, ar_list>>

sc_vars ==
    <<sc_pc, sc_lines, sc_mode, sc_noise, sc_malformed, sc_blocks, sc_readable,
      sc_result>>

qp_vars == <<qp_pc, qp_name, qp_items, qp_shape, qp_result>>

ex_vars ==
    <<ex_pc, ex_name, ex_query, ex_body, ex_fetch, ex_types, ex_sent, ex_reply,
      ex_response>>

cu_vars == <<cu_pc, cu_lines, cu_i, cu_schema, cu_block, cu_result, cu_steps>>

hd_vars == <<hd_pc, hd_handler, hd_source, hd_call, hd_outcome, hd_response>>

cc_vars == <<cc_pc, cc_name, cc_query, cc_body, cc_fetch, cc_sent, cc_reply, cc_response,
            cc_stderr>>

vars == <<ty_vars, co_vars, so_vars, me_vars, ar_vars, sc_vars, qp_vars, ex_vars, cu_vars, hd_vars, cc_vars>>

\* what a step of one part leaves alone: the variables of the other parts
not_ty_vars == <<co_vars, so_vars, me_vars, ar_vars, sc_vars, qp_vars, ex_vars, cu_vars, hd_vars, cc_vars>>

not_co_vars == <<ty_vars, so_vars, me_vars, ar_vars, sc_vars, qp_vars, ex_vars, cu_vars, hd_vars, cc_vars>>

not_so_vars == <<ty_vars, co_vars, me_vars, ar_vars, sc_vars, qp_vars, ex_vars, cu_vars, hd_vars, cc_vars>>

not_me_vars == <<ty_vars, co_vars, so_vars, ar_vars, sc_vars, qp_vars, ex_vars, cu_vars, hd_vars, cc_vars>>

not_ar_vars == <<ty_vars, co_vars, so_vars, me_vars, sc_vars, qp_vars, ex_vars, cu_vars, hd_vars, cc_vars>>

not_sc_vars == <<ty_vars, co_vars, so_vars, me_vars, ar_vars, qp_vars, ex_vars, cu_vars, hd_vars, cc_vars>>

not_qp_vars == <<ty_vars, co_vars, so_vars, me_vars, ar_vars, sc_vars, ex_vars, cu_vars, hd_vars, cc_vars>>

not_ex_vars == <<ty_vars, co_vars, so_vars, me_vars, ar_vars, sc_vars, qp_vars, cu_vars, hd_vars, cc_vars>>

not_cu_vars == <<ty_vars, co_vars, so_vars, me_vars, ar_vars, sc_vars, qp_vars, ex_vars, hd_vars, cc_vars>>

not_hd_vars == <<ty_vars, co_vars, so_vars, me_vars, ar_vars, sc_vars, qp_vars, ex_vars, cu_vars, cc_vars>>

not_cc_vars == <<ty_vars, co_vars, so_vars, me_vars, ar_vars, sc_vars, qp_vars, ex_vars, cu_vars, hd_vars>>

(***************************************************************************)
(* Text helpers                                                            *)
(***************************************************************************)
StartsWith(s, p) == Len(s) >= Len(p) /\ SubSeq(s, 1, Len(p)) = p

EndsWith(s, p) == Len(s) >= Len(p) /\ SubSeq(s, Len(s) - Len(p) + 1, Len(s)) = p

\* &s[from .. to] with Rust's zero-based, end-exclusive byte offsets
Slice(s, from, to) == SubSeq(s, from + 1, to)

(***************************************************************************)
(* Result<T, E>                                                            *)
(***************************************************************************)
Ok(v) == [ok |-> TRUE, val |-> v]

Err(e) == [ok |-> FALSE, err |-> e]

None == [ok |-> FALSE, err |-> [kind |-> "None"]]

(***************************************************************************)
(* enum HelixType                                                          *)
(***************************************************************************)
ScalarTags == {"String", "I32", "I64", "U32", "U64", "U128", "F64", "ID"}

Scalar(tag) == [tag |-> tag]

Array(inner) == [tag |-> "Array", inner |-> inner]

T_String == <<"S", "t", "r", "i", "n", "g">>
T_I32 == <<"I", "3", "2">>
T_I64 == <<"I", "6", "4">>
T_U32 == <<"U", "3", "2">>
T_U64 == <<"U", "6", "4">>
T_U128 == <<"U", "1", "2", "8">>
T_F64 == <<"F", "6", "4">>
T_ID == <<"I", "D">>

T_ArrayOpen == <<"A", "r", "r", "a", "y", "(">>

ScalarText(tag) ==
    CASE tag = "String" -> T_String
      [] tag = "I32" -> T_I32
      [] tag = "I64" -> T_I64
      [] tag = "U32" -> T_U32
      [] tag = "U64" -> T_U64
      [] tag = "U128" -> T_U128
      [] tag = "F64" -> T_F64
      [] tag = "ID" -> T_ID

ScalarTexts == {ScalarText(tag) : tag \in ScalarTags}

\* A Display that writes the legacy spelling (mutation of fmt_array)
fmt_array_legacy(inner) == T_ArrayOpen \o inner \o <<")">>

\* write!(f, "[{inner}]")
fmt_array(inner) == <<"[">> \o inner \o <<"]">>

\* impl Display for HelixType
RECURSIVE fmt(_)
fmt(t) ==
    IF t.tag = "Array"
    THEN fmt_array(fmt(t.inner))
    ELSE ScalarText(t.tag)

\* enum HelixTypeError
UnknownTypePrefix ==
    <<"U", "n", "k", "n", "o", "w", "n", " ", "t", "y", "p", "e", ":", " ">>

ParseType(msg) == [kind |-> "ParseType", msg |-> msg]

\* &s[1..s.len() - 1]
bracket_inner(s) == Slice(s, 1, Len(s) - 1)

\* A slice that keeps the opening parenthesis (mutation of legacy_inner)
legacy_inner_short(s) == Slice(s, 5, Len(s) - 1)

\* &s[6..s.len() - 1]
legacy_inner(s) == Slice(s, 6, Len(s) - 1)

\* A message that leaves the text out (mutation of unknown_type)
unknown_type_blank(s) == UnknownTypePrefix

\* format!("Unknown type: {s}")
unknown_type(s) == UnknownTypePrefix \o s

\* impl FromStr for HelixType
RECURSIVE from_str(_)
from_str(s) ==
    IF s = T_String THEN Ok(Scalar("String"))
    ELSE IF s = T_I32 THEN Ok(Scalar("I32"))
    ELSE IF s = T_I64 THEN Ok(Scalar("I64"))
    ELSE IF s = T_U32 THEN Ok(Scalar("U32"))
    ELSE IF s = T_U64 THEN Ok(Scalar("U64"))
    ELSE IF s = T_U128 THEN Ok(Scalar("U128"))
    ELSE IF s = T_F64 THEN Ok(Scalar("F64"))
    ELSE IF s = T_ID THEN Ok(Scalar("ID"))
    ELSE IF StartsWith(s, <<"[">>) /\ EndsWith(s, <<"]">>)
    THEN LET inner_type == from_str(bracket_inner(s))
         IN  IF inner_type.ok THEN Ok(Array(inner_type.val)) ELSE inner_type
    ELSE IF StartsWith(s, T_ArrayOpen) /\ EndsWith(s, <<")">>)
    THEN LET inner_type == from_str(legacy_inner(s))
         IN  IF inner_type.ok THEN Ok(Array(inner_type.val)) ELSE inner_type
    ELSE Err(ParseType(unknown_type(s)))

(***************************************************************************)
(* serde_json::Value                                                       *)
(***************************************************************************)
JString(s) == [tag |-> "String", s |-> s]

\* Value::Number(Number::from(n)) for an integer n
JInt(n) == [tag |-> "Number", int |-> n]

\* Value::Number of a finite float
JFloat(f) == [tag |-> "Number", float |-> f]

JArray(items) == [tag |-> "Array", items |-> items]

JBool(b) == [tag |-> "Bool", b |-> b]

\* Value::Object(map).  serde_json::Map keeps its entries in insertion order
\* (the crate's preserve_order feature): a map is the sequence of its entries,
\* no key twice.
JObject(entries) == [tag |-> "Object", entries |-> entries]

Entry(key, value) == [key |-> key, value |-> value]

Keys(entries) == [i \in 1..Len(entries) |-> entries[i].key]

\* Map::contains_key
contains_key(entries, key) == \E i \in 1..Len(entries) : entries[i].key = key

\* Map::get, for a key the map contains
get(entries, key) ==
    entries[CHOOSE i \in 1..Len(entries) : entries[i].key = key].value

\* Map::insert: a new key goes last, a known key keeps its place and takes the
\* new value
insert(entries, key, value) ==
    IF contains_key(entries, key)
    THEN [i \in 1..Len(entries) |->
             IF entries[i].key = key THEN Entry(key, value) ELSE entries[i]]
    ELSE Append(entries, Entry(key, value))

\* Iterator::collect::<serde_json::Map<_, _>>()
RECURSIVE collect_map(_)
collect_map(pairs) ==
    IF pairs = <<>> THEN <<>>
    ELSE insert(collect_map(SubSeq(pairs, 1, Len(pairs) - 1)),
                pairs[Len(pairs)].key, pairs[Len(pairs)].value)

JNull == [tag |-> "Null"]

\* HelixTypeError::Conversion { value, expected_type, error }
Conversion(value, expected_type, error) ==
    [kind |-> "Conversion", value |-> value, expected_type |-> expected_type,
     error |-> error]

(***************************************************************************)
(* Integers of any size: a sign and a magnitude, the magnitude a sequence  *)
(* of decimal digits without leading zeros (zero is <<0>>).  The limits of *)
(* the fixed-width types lie beyond the range of TLC's own integers, so    *)
(* magnitudes are compared digit by digit, at their true width.            *)
(***************************************************************************)
Digits == {"0", "1", "2", "3", "4", "5", "6", "7", "8", "9"}

DigitValue(c) ==
    CASE c = "0" -> 0 [] c = "1" -> 1 [] c = "2" -> 2 [] c = "3" -> 3
      [] c = "4" -> 4 [] c = "5" -> 5 [] c = "6" -> 6 [] c = "7" -> 7
      [] c = "8" -> 8 [] c = "9" -> 9

AllDigits(s) == \A i \in 1..Len(s) : s[i] \in Digits

RECURSIVE StripZeros(_)
StripZeros(d) ==
    IF Len(d) > 1 /\ d[1] = 0 THEN StripZeros(Tail(d)) ELSE d

\* the magnitude denoted by a non-empty string of digits
Magnitude(s) == StripZeros([i \in 1..Len(s) |-> DigitValue(s[i])])

MagLess(a, b) ==
    \/ Len(a) < Len(b)
    \/ /\ Len(a) = Len(b)
       /\ \E i \in 1..Len(a) :
              /\ a[i] < b[i]
              /\ \A j \in 1..(i - 1) : a[j] = b[j]

MagLeq(a, b) == a = b \/ MagLess(a, b)

Zero == <<0>>

SignedInt(neg, mag) == [neg |-> neg /\ mag # Zero, mag |-> mag]

I32_MAX == <<2, 1, 4, 7, 4, 8, 3, 6, 4, 7>>
I32_MIN == <<2, 1, 4, 7, 4, 8, 3, 6, 4, 8>>
U32_MAX == <<4, 2, 9, 4, 9, 6, 7, 2, 9, 5>>
I64_MAX == <<9, 2, 2, 3, 3, 7, 2, 0, 3, 6, 8, 5, 4, 7, 7, 5, 8, 0, 7>>
I64_MIN == <<9, 2, 2, 3, 3, 7, 2, 0, 3, 6, 8, 5, 4, 7, 7, 5, 8, 0, 8>>
U64_MAX == <<1, 8, 4, 4, 6, 7, 4, 4, 0, 7, 3, 7, 0, 9, 5, 5, 1, 6, 1, 5>>
U128_MAX ==
    <<3, 4, 0, 2, 8, 2, 3, 6, 6, 9, 2, 0, 9, 3, 8, 4, 6, 3, 4, 6,
      3, 3, 7, 4, 6, 0, 7, 4, 3, 1, 7, 6, 8, 2, 1, 1, 4, 5, 5>>

\* <iN as FromStr>::from_str and <uN as FromStr>::from_str: an optional "+",
\* or "-" for a signed type, then one or more ASCII digits, the value within
\* the type's range.  min_mag is the magnitude of the type's minimum.
parse_int(s, signed, max_mag, min_mag) ==
    IF s = <<>> THEN Err("Empty")
    ELSE LET neg == signed /\ s[1] = "-"
             body == IF s[1] = "+" \/ neg THEN Tail(s) ELSE s
         IN  IF body = <<>> \/ ~AllDigits(body) THEN Err("InvalidDigit")
             ELSE IF neg
             THEN IF MagLeq(Magnitude(body), min_mag)
                  THEN Ok(SignedInt(TRUE, Magnitude(body)))
                  ELSE Err("NegOverflow")
             ELSE IF MagLeq(Magnitude(body), max_mag)
                  THEN Ok(SignedInt(FALSE, Magnitude(body)))
                  ELSE Err("PosOverflow")

\* self.parse::<i32>()
parse_i32(s) == parse_int(s, TRUE, I32_MAX, I32_MIN)

\* self.parse::<i64>()
parse_i64(s) == parse_int(s, TRUE, I64_MAX, I64_MIN)

\* the U32 arm parsing at the width of the U64 arm (mutation of parse_u32)
parse_u32_wide(s) == parse_int(s, FALSE, U64_MAX, Zero)

\* self.parse::<u32>()
parse_u32(s) == parse_int(s, FALSE, U32_MAX, Zero)

\* self.parse::<u64>()
parse_u64(s) == parse_int(s, FALSE, U64_MAX, Zero)

\* self.parse::<u128>()
parse_u128(s) == parse_int(s, FALSE, U128_MAX, Zero)

(***************************************************************************)
(* f64.  A finite float is kept as its decimal value: a sign, the          *)
(* significant digits without leading or trailing zeros, and the power of  *)
(* ten that scales them (value = mant * 10^exp).  The model keeps at most  *)
(* SigDigits significant digits and decides overflow by the number of      *)
(* integer digits, which stands for the rounding to 53 bits.               *)
(***************************************************************************)
SigDigits == 17

MaxIntDigits == 309

MinIntDigits == -323

RECURSIVE NatOf(_)
NatOf(d) == IF d = <<>> THEN 0 ELSE 10 * NatOf(SubSeq(d, 1, Len(d) - 1)) + d[Len(d)]

RECURSIVE TrailingZeros(_)
TrailingZeros(d) ==
    IF Len(d) > 1 /\ d[Len(d)] = 0
    THEN 1 + TrailingZeros(SubSeq(d, 1, Len(d) - 1))
    ELSE 0

Finite(neg, mant, exp) == [kind |-> "finite", neg |-> neg, mant |-> mant, exp |-> exp]

Infinite(neg) == [kind |-> "inf", neg |-> neg]

NaN == [kind |-> "nan"]

\* the f64 nearest to digits * 10^exp10, digits a sequence of decimal digits
to_f64(neg, digits, exp10) ==
    LET lead == StripZeros(digits)
        kept == IF Len(lead) > SigDigits THEN SubSeq(lead, 1, SigDigits) ELSE lead
        e1 == exp10 + (Len(lead) - Len(kept))
        tz == TrailingZeros(kept)
        mant == SubSeq(kept, 1, Len(kept) - tz)
    IN  IF mant = Zero THEN Finite(FALSE, Zero, 0)
        ELSE IF Len(mant) + e1 + tz > MaxIntDigits THEN Infinite(neg)
        ELSE IF Len(mant) + e1 + tz < MinIntDigits THEN Finite(FALSE, Zero, 0)
        ELSE Finite(neg, mant, e1 + tz)

\* n as f64, for an unsigned integer n
int_as_f64(n) == to_f64(FALSE, n.mag, 0)

Lower(c) ==
    CASE c = "I" -> "i" [] c = "N" -> "n" [] c = "F" -> "f" [] c = "A" -> "a"
      [] c = "T" -> "t" [] c = "Y" -> "y" [] c = "E" -> "e" [] OTHER -> c

LowerText(s) == [i \in 1..Len(s) |-> Lower(s[i])]

\* index of the first element of s that lies in set cs, 0 when there is none
FirstIn(s, cs) ==
    IF \E i \in 1..Len(s) : s[i] \in cs
    THEN CHOOSE i \in 1..Len(s) : s[i] \in cs /\ \A j \in 1..(i - 1) : s[j] \notin cs
    ELSE 0

\* the exponent of a decimal float text: "e" or "E", an optional sign, digits
parse_exponent(s) ==
    IF s = <<>> THEN Ok(0)
    ELSE LET signed == Len(s) >= 2 /\ s[2] \in {"+", "-"}
             ds == SubSeq(s, IF signed THEN 3 ELSE 2, Len(s))
         IN  IF ds = <<>> \/ ~AllDigits(ds) THEN Err("Invalid")
             ELSE LET m == Magnitude(ds)
                      \* an exponent of five digits or more saturates
                      v == IF Len(m) > 4 THEN NatOf(<<1, 0, 0, 0, 0>>) ELSE NatOf(m)
                  IN  Ok(IF signed /\ s[2] = "-" THEN 0 - v ELSE v)

\* <f64 as FromStr>::from_str: an optional sign, then "inf", "infinity" or
\* "nan" in any letter case, or digits with an optional "." and an optional
\* exponent, at least one digit before the exponent
parse_f64(s) ==
    IF s = <<>> THEN Err("Empty")
    ELSE LET has_sign == s[1] \in {"+", "-"}
             neg == s[1] = "-"
             rest == IF has_sign THEN Tail(s) ELSE s
             low == LowerText(rest)
             epos == FirstIn(rest, {"e", "E"})
             mantissa == IF epos = 0 THEN rest ELSE SubSeq(rest, 1, epos - 1)
             exponent == IF epos = 0 THEN <<>> ELSE SubSeq(rest, epos, Len(rest))
             dot == FirstIn(mantissa, {"."})
             int_part == IF dot = 0 THEN mantissa ELSE SubSeq(mantissa, 1, dot - 1)
             frac_part == IF dot = 0 THEN <<>> ELSE SubSeq(mantissa, dot + 1, Len(mantissa))
             exp == parse_exponent(exponent)
         IN  IF low = <<"i", "n", "f">> \/ low = <<"i", "n", "f", "i", "n", "i", "t", "y">>
             THEN Ok(Infinite(neg))
             ELSE IF low = <<"n", "a", "n">> THEN Ok(NaN)
             ELSE IF \/ ~AllDigits(int_part)
                     \/ ~AllDigits(frac_part)
                     \/ Len(int_part) + Len(frac_part) = 0
                     \/ ~exp.ok
             THEN Err("Invalid")
             ELSE Ok(to_f64(neg,
                            [i \in 1..(Len(int_part) + Len(frac_part)) |->
                                DigitValue((int_part \o frac_part)[i])],
                            exp.val - Len(frac_part)))

\* Number::from_f64: None unless the float is finite
from_f64(f) == IF f.kind = "finite" THEN Ok(JFloat(f)) ELSE None

(***************************************************************************)
(* parse_f64_array                                                         *)
(***************************************************************************)
Whitespace == {" ", "\t", "\n", "\r"}

RECURSIVE TrimStart(_)
TrimStart(s) == IF s # <<>> /\ s[1] \in Whitespace THEN TrimStart(Tail(s)) ELSE s

RECURSIVE TrimEnd(_)
TrimEnd(s) ==
    IF s # <<>> /\ s[Len(s)] \in Whitespace
    THEN TrimEnd(SubSeq(s, 1, Len(s) - 1))
    ELSE s

\* str::trim
Trim(s) == TrimEnd(TrimStart(s))

\* str::split(','): the pieces between the commas, at least one piece
RECURSIVE Split(_)
Split(s) ==
    LET c == FirstIn(s, {","})
    IN  IF c = 0 THEN <<s>>
        ELSE <<SubSeq(s, 1, c - 1)>> \o Split(SubSeq(s, c + 1, Len(s)))

\* a JSON number: -? (0 | [1-9][0-9]*) (. [0-9]+)? ([eE] [+-]? [0-9]+)?
is_json_number(s) ==
    LET rest == IF s # <<>> /\ s[1] = "-" THEN Tail(s) ELSE s
        epos == FirstIn(rest, {"e", "E"})
        mantissa == IF epos = 0 THEN rest ELSE SubSeq(rest, 1, epos - 1)
        exponent == IF epos = 0 THEN <<>> ELSE SubSeq(rest, epos, Len(rest))
        dot == FirstIn(mantissa, {"."})
        int_part == IF dot = 0 THEN mantissa ELSE SubSeq(mantissa, 1, dot - 1)
        frac_part == IF dot = 0 THEN <<>> ELSE SubSeq(mantissa, dot + 1, Len(mantissa))
    IN  /\ int_part # <<>>
        /\ AllDigits(int_part)
        /\ (Len(int_part) > 1 => int_part[1] # "0")
        /\ (dot # 0 => frac_part # <<>> /\ AllDigits(frac_part))
        /\ parse_exponent(exponent).ok

\* one element of serde_json::from_str::<Vec<f64>>: a JSON number in range
json_f64(s) ==
    IF is_json_number(s) /\ parse_f64(s).val.kind = "finite"
    THEN parse_f64(s)
    ELSE Err("Json")

\* A collect that skips the errors (mutation of collect)
collect_oks(rs) ==
    LET RECURSIVE Oks(_)
        Oks(r) == IF r = <<>> THEN <<>>
                  ELSE (IF Head(r).ok THEN <<Head(r).val>> ELSE <<>>) \o Oks(Tail(r))
    IN  Ok(Oks(rs))

\* Result<Vec<T>, E> collected from a sequence of Result<T, E>: the values, or
\* the first error
collect(rs) ==
    IF \A i \in 1..Len(rs) : rs[i].ok
    THEN Ok([i \in 1..Len(rs) |-> rs[i].val])
    ELSE rs[FirstIn(rs, {r \in {rs[i] : i \in 1..Len(rs)} : ~r.ok})]

\* serde_json::from_str::<Vec<f64>>(value)
json_f64_vec(s) ==
    LET t == Trim(s)
        inner == SubSeq(t, 2, Len(t) - 1)
        pieces == Split(inner)
    IN  IF Len(t) < 2 \/ t[1] # "[" \/ t[Len(t)] # "]" THEN Err("Json")
        ELSE IF Trim(inner) = <<>> THEN Ok(<<>>)
        ELSE collect([i \in 1..Len(pieces) |-> json_f64(Trim(pieces[i]))])

\* A fallback that parses the pieces untrimmed (mutation of split_f64_vec)
split_f64_vec_untrimmed(s) ==
    LET pieces == Split(s)
    IN  collect([i \in 1..Len(pieces) |-> parse_f64(pieces[i])])

\* value.split(',').map(|s| s.trim().parse::<f64>()).collect()
split_f64_vec(s) ==
    LET pieces == Split(s)
    IN  collect([i \in 1..Len(pieces) |-> parse_f64(Trim(pieces[i]))])

\* A filter that stops at the first float that is not finite (mutation of
\* filter_map_from_f64)
RECURSIVE filter_map_until_none(_)
filter_map_until_none(numbers) ==
    IF numbers = <<>> \/ ~from_f64(Head(numbers)).ok THEN <<>>
    ELSE <<from_f64(Head(numbers)).val>> \o filter_map_until_none(Tail(numbers))

\* numbers.into_iter().filter_map(Number::from_f64).map(Value::Number)
RECURSIVE filter_map_from_f64(_)
filter_map_from_f64(numbers) ==
    IF numbers = <<>> THEN <<>>
    ELSE (IF from_f64(Head(numbers)).ok THEN <<from_f64(Head(numbers)).val>> ELSE <<>>)
             \o filter_map_from_f64(Tail(numbers))

\* fn parse_f64_array(value: &str) -> Result<Value, String>
parse_f64_array(value) ==
    LET numbers == IF json_f64_vec(value).ok
                   THEN json_f64_vec(value)
                   ELSE split_f64_vec(value)
    IN  IF numbers.ok
        THEN Ok(JArray(filter_map_from_f64(numbers.val)))
        ELSE Err("Failed to parse array")

(***************************************************************************)
(* impl ToJson for str                                                     *)
(***************************************************************************)
\* .map(|n| Value::Number(Number::from(n))).map_err(|e| Conversion {..})
int_to_json(parsed, self, helix_type) ==
    IF parsed.ok
    THEN Ok(JInt(parsed.val))
    ELSE Err(Conversion(self, helix_type, parsed.err))

\* An Array arm that reports the element type (mutation of array_to_json)
array_to_json_inner(self, helix_type) ==
    IF helix_type.inner.tag = "F64"
    THEN IF parse_f64_array(self).ok
         THEN parse_f64_array(self)
         ELSE Err(Conversion(self, helix_type.inner, parse_f64_array(self).err))
    ELSE Err(Conversion(self, helix_type.inner, "Array type not yet supported"))

\* HelixType::Array(inner_type) => match inner_type.as_ref() { .. }
array_to_json(self, helix_type) ==
    IF helix_type.inner.tag = "F64"
    THEN IF parse_f64_array(self).ok
         THEN parse_f64_array(self)
         ELSE Err(Conversion(self, helix_type, parse_f64_array(self).err))
    ELSE Err(Conversion(self, helix_type, "Array type not yet supported"))

\* fn to_json(&self, helix_type: &HelixType) -> Result<Value, HelixTypeError>
to_json(self, helix_type) ==
    CASE helix_type.tag \in {"String", "ID"} -> Ok(JString(self))
      [] helix_type.tag = "I32" -> int_to_json(parse_i32(self), self, helix_type)
      [] helix_type.tag = "I64" -> int_to_json(parse_i64(self), self, helix_type)
      [] helix_type.tag = "U32" -> int_to_json(parse_u32(self), self, helix_type)
      [] helix_type.tag = "U64" -> int_to_json(parse_u64(self), self, helix_type)
      [] helix_type.tag = "U128" ->
            IF ~parse_u128(self).ok
            THEN Err(Conversion(self, helix_type, parse_u128(self).err))
            ELSE IF from_f64(int_as_f64(parse_u128(self).val)).ok
            THEN from_f64(int_as_f64(parse_u128(self).val))
            ELSE Err(Conversion(self, helix_type, "Number too large for JSON representation"))
      [] helix_type.tag = "F64" ->
            IF ~parse_f64(self).ok
            THEN Err(Conversion(self, helix_type, parse_f64(self).err))
            ELSE IF from_f64(parse_f64(self).val).ok
            THEN from_f64(parse_f64(self).val)
            ELSE Err(Conversion(self, helix_type, "Invalid float value for JSON"))
      [] helix_type.tag = "Array" -> array_to_json(self, helix_type)

(***************************************************************************)
(* Value texts: a chosen text with up to MaxAffix characters added at      *)
(* either end, coerced to one of the types                                 *)
(***************************************************************************)
MaxAffix == 1

DigitChar(d) ==
    CASE d = 0 -> "0" [] d = 1 -> "1" [] d = 2 -> "2" [] d = 3 -> "3"
      [] d = 4 -> "4" [] d = 5 -> "5" [] d = 6 -> "6" [] d = 7 -> "7"
      [] d = 8 -> "8" [] d = 9 -> "9"

TextOf(mag) == [i \in 1..Len(mag) |-> DigitChar(mag[i])]

\* mag + 1
RECURSIVE Succ(_)
Succ(mag) ==
    IF mag = <<>> THEN <<1>>
    ELSE IF mag[Len(mag)] < 9
    THEN SubSeq(mag, 1, Len(mag) - 1) \o <<mag[Len(mag)] + 1>>
    ELSE Succ(SubSeq(mag, 1, Len(mag) - 1)) \o <<0>>

Limits == {I32_MAX, U32_MAX, I64_MAX, U64_MAX, U128_MAX}

LimitTexts ==
    UNION {{TextOf(m), TextOf(Succ(m)), TextOf(Succ(Succ(m)))} : m \in Limits}

OtherTexts ==
    { <<>>,
      <<"0">>,
      <<"4", "2">>,
      <<"i", "n", "v", "a", "l", "i", "d">>,
      <<"h", "e", "l", "l", "o">>,
      <<"4", " ", "2">>,
      <<"3", ".", "1", "4">>,
      <<"1", "e", "5">>,
      <<"1", "e", "9", "9", "9">>,
      <<"i", "n", "f">>,
      <<"N", "a", "N">>,
      <<"[", "1", ".", "0", ",", " ", "2", ".", "5", "]">>,
      <<"1", ".", "0", ",", " ", "2", ".", "5">>,
      <<"1", ".", "0", ",", "n", "a", "n">>,
      <<"1", ".", "0", ",", "x">>,
      <<"[", "]">> }

ValueTexts == LimitTexts \cup OtherTexts

AffixChars == {"-", "+", "0", " ", "."}

CoerceTypes ==
    {Scalar(tag) : tag \in ScalarTags}
        \cup {Array(Scalar("F64")), Array(Scalar("I32")), Array(Array(Scalar("F64")))}

CoIdle ==
    /\ co_pc = "idle"
    /\ co_value = <<>>
    /\ co_affixes = 0
    /\ co_type = Scalar("String")
    /\ co_result = None

CoChoose(v) ==
    /\ co_pc = "idle"
    /\ co_pc' = "value"
    /\ co_value' = v
    /\ UNCHANGED <<co_affixes, co_type, co_result>>
    /\ UNCHANGED not_co_vars

CoPrepend(c) ==
    /\ co_pc = "value"
    /\ co_affixes < MaxAffix
    /\ co_value' = <<c>> \o co_value
    /\ co_affixes' = co_affixes + 1
    /\ UNCHANGED <<co_pc, co_type, co_result>>
    /\ UNCHANGED not_co_vars

CoAppend(c) ==
    /\ co_pc = "value"
    /\ co_affixes < MaxAffix
    /\ co_value' = co_value \o <<c>>
    /\ co_affixes' = co_affixes + 1
    /\ UNCHANGED <<co_pc, co_type, co_result>>
    /\ UNCHANGED not_co_vars

\* value.to_json(&helix_type)
CoToJson(t) ==
    /\ co_pc = "value"
    /\ co_type' = t
    /\ co_result' = to_json(co_value, t)
    /\ co_pc' = "done"
    /\ UNCHANGED <<co_value, co_affixes>>
    /\ UNCHANGED not_co_vars

CoNext ==
    \/ \E v \in ValueTexts : CoChoose(v)
    \/ \E c \in AffixChars : CoPrepend(c)
    \/ \E c \in AffixChars : CoAppend(c)
    \/ \E t \in CoerceTypes : CoToJson(t)


(***************************************************************************)
(* web/utils.rs: sort_json_object                                          *)
(***************************************************************************)
\* key.chars().all(|c| c.is_ascii_digit())
is_numeric_key(key) == AllDigits(key)

\* a.parse::<u64>().unwrap_or(0)
sort_key(key) == IF parse_u64(key).ok THEN parse_u64(key).val.mag ELSE Zero

\* A sort that is not stable: the entry goes before the entries that compare
\* equal (mutation of insert_sorted)
RECURSIVE insert_sorted_unstable(_, _)
insert_sorted_unstable(sorted, e) ==
    IF sorted = <<>> THEN <<e>>
    ELSE IF MagLeq(sort_key(e.key), sort_key(sorted[Len(sorted)].key))
    THEN Append(insert_sorted_unstable(SubSeq(sorted, 1, Len(sorted) - 1), e),
                sorted[Len(sorted)])
    ELSE Append(sorted, e)

\* the place a stable sort gives to entry e among the sorted entries: behind
\* every entry that does not compare greater
RECURSIVE insert_sorted(_, _)
insert_sorted(sorted, e) ==
    IF sorted = <<>> THEN <<e>>
    ELSE IF MagLess(sort_key(e.key), sort_key(sorted[Len(sorted)].key))
    THEN Append(insert_sorted(SubSeq(sorted, 1, Len(sorted) - 1), e), sorted[Len(sorted)])
    ELSE Append(sorted, e)

\* A sort that also drops an entry whose sort key equals that of an entry
\* before it (mutation of sort_by)
RECURSIVE sort_by_dedup(_)
sort_by_dedup(entries) ==
    IF entries = <<>> THEN <<>>
    ELSE IF \E i \in 1..(Len(entries) - 1) :
                sort_key(entries[i].key) = sort_key(entries[Len(entries)].key)
    THEN sort_by_dedup(SubSeq(entries, 1, Len(entries) - 1))
    ELSE insert_sorted(sort_by_dedup(SubSeq(entries, 1, Len(entries) - 1)),
                       entries[Len(entries)])

\* sort_unstable_by in place of sort_by: entries that compare equal come out
\* in the reverse of the order they went in (mutation of sort_by)
RECURSIVE sort_by_unstable(_)
sort_by_unstable(entries) ==
    IF entries = <<>> THEN <<>>
    ELSE insert_sorted_unstable(sort_by_unstable(SubSeq(entries, 1, Len(entries) - 1)),
                                entries[Len(entries)])

\* sorted_numeric.sort_by(|(a, _), (b, _)| a_num.cmp(&b_num)): a stable sort
RECURSIVE sort_by(_)
sort_by(entries) ==
    IF entries = <<>> THEN <<>>
    ELSE insert_sorted(sort_by(SubSeq(entries, 1, Len(entries) - 1)), entries[Len(entries)])

IsNumericEntry(e) == is_numeric_key(e.key)

IsNonNumericEntry(e) == ~is_numeric_key(e.key)

IsIdEntry(e) == e.key = <<"i", "d">>

IsOtherEntry(e) == e.key # <<"i", "d">>

\* pub fn sort_json_object(value: Value) -> Value
RECURSIVE sort_json_object(_)
sort_json_object(value) ==
    IF value.tag = "Object"
    THEN LET mapped == [i \in 1..Len(value.entries) |->
                           Entry(value.entries[i].key,
                                 sort_json_object(value.entries[i].value))]
             numeric == SelectSeq(mapped, IsNumericEntry)
             non_numeric == SelectSeq(mapped, IsNonNumericEntry)
             id_keys == SelectSeq(non_numeric, IsIdEntry)
             other_keys == SelectSeq(non_numeric, IsOtherEntry)
             sorted_numeric == sort_by(numeric)
         IN  JObject(collect_map(sorted_numeric \o id_keys \o other_keys))
    ELSE IF value.tag = "Array"
    THEN JArray([i \in 1..Len(value.items) |-> sort_json_object(value.items[i])])
    ELSE value

(***************************************************************************)
(* JSON values handed to sort_json_object: built from a leaf by adding     *)
(* object entries and array elements, and by nesting the value built so    *)
(* far in a new object or array                                            *)
(***************************************************************************)
MaxKeys == 3

MaxDepth == 1

K_id == <<"i", "d">>
K_name == <<"n", "a", "m", "e">>
K_age == <<"a", "g", "e">>
K_2 == <<"2">>
K_10 == <<"1", "0">>
K_02 == <<"0", "2">>

\* one more than the largest u64
K_big == TextOf(Succ(U64_MAX))

SortKeys == {K_id, K_name, K_age, K_2, K_10, K_02, K_big}

NestKeys == {K_name, K_2}

\* the keys an enclosing object receives besides the nested value
OuterKeys == {K_id, K_10}

\* the leaf stored under a key: a string naming the key, so that every entry
\* of an object has a value of its own
LeafFor(key) == JString(<<"v">> \o key)

Leaves == {JNull, JBool(TRUE), JString(<<"x">>), JInt(SignedInt(FALSE, <<7>>))}

SoIdle ==
    /\ so_pc = "idle"
    /\ so_input = JNull
    /\ so_depth = 0
    /\ so_output = JNull

\* start from an empty object or from a leaf
SoStart(v) ==
    /\ so_pc = "idle"
    /\ so_pc' = "input"
    /\ so_input' = v
    /\ UNCHANGED <<so_depth, so_output>>
    /\ UNCHANGED not_so_vars

\* the object gains an entry under a key it does not have
SoPut(key) ==
    /\ so_pc = "input"
    /\ so_input.tag = "Object"
    /\ Len(so_input.entries) < MaxKeys
    /\ ~contains_key(so_input.entries, key)
    /\ so_depth = 0 \/ key \in OuterKeys
    /\ so_input' = JObject(insert(so_input.entries, key, LeafFor(key)))
    /\ UNCHANGED <<so_pc, so_depth, so_output>>
    /\ UNCHANGED not_so_vars

\* the value becomes the only entry of a new object
SoNest(key) ==
    /\ so_pc = "input"
    /\ so_depth < MaxDepth
    /\ so_input' = JObject(<<Entry(key, so_input)>>)
    /\ so_depth' = so_depth + 1
    /\ UNCHANGED <<so_pc, so_output>>
    /\ UNCHANGED not_so_vars

\* the value becomes an element of a new array, before or behind a leaf
SoWrap(leaf_first) ==
    /\ so_pc = "input"
    /\ so_depth < MaxDepth
    /\ so_input' = JArray(IF leaf_first
                          THEN <<JString(<<"x">>), so_input>>
                          ELSE <<so_input, JBool(TRUE)>>)
    /\ so_depth' = so_depth + 1
    /\ UNCHANGED <<so_pc, so_output>>
    /\ UNCHANGED not_so_vars

\* sort_json_object(input)
SoSort ==
    /\ so_pc = "input"
    /\ so_output' = sort_json_object(so_input)
    /\ so_pc' = "sorted"
    /\ UNCHANGED <<so_input, so_depth>>
    /\ UNCHANGED not_so_vars

SoNext ==
    \/ \E v \in Leaves \cup {JObject(<<>>)} : SoStart(v)
    \/ \E key \in SortKeys : SoPut(key)
    \/ \E key \in NestKeys : SoNest(key)
    \/ \E leaf_first \in BOOLEAN : SoWrap(leaf_first)
    \/ SoSort

(***************************************************************************)
(* web/params.rs: QueryParams::merge_parameters                            *)
(*                                                                         *)
(* A HashMap<String, String> is a function from its keys to their values;  *)
(* its iteration order is not fixed, so the caller of merge_parameters     *)
(* below supplies the order in which query_params.iter() yields the keys.  *)
(***************************************************************************)
\* body: None
NoBody == [tag |-> "None"]

K_body == <<"b", "o", "d", "y">>

\* A seed that wraps every body that is not an object, null included
\* (mutation of seed_params)
seed_params_wrap_null(body) ==
    IF body.tag = "Object" THEN body.entries
    ELSE IF body.tag # "None" THEN <<Entry(K_body, body)>>
    ELSE <<>>

\* let mut params = match body { .. }
seed_params(body) ==
    IF body.tag = "Object" THEN body.entries
    ELSE IF body.tag # "None" /\ body.tag # "Null" THEN <<Entry(K_body, body)>>
    ELSE <<>>

\* A filter that lets every query parameter through (mutation of is_new_param)
is_new_param_always(params, key) == TRUE

\* .filter(|(key, _)| !params.contains_key(*key))
is_new_param(params, key) == ~contains_key(params, key)

\* A conversion whose fallback is null (mutation of converted_value)
converted_value_or_null(key, value, param_types) ==
    IF /\ key \in DOMAIN param_types
       /\ from_str(param_types[key]).ok
       /\ to_json(value, from_str(param_types[key]).val).ok
    THEN to_json(value, from_str(param_types[key]).val).val
    ELSE JNull

\* param_types.get(key).and_then(|param_type| { .. })
\*     .unwrap_or_else(|| Value::String(value.to_string()))
converted_value(key, value, param_types) ==
    IF /\ key \in DOMAIN param_types
       /\ from_str(param_types[key]).ok
       /\ to_json(value, from_str(param_types[key]).val).ok
    THEN to_json(value, from_str(param_types[key]).val).val
    ELSE JString(value)

\* for (key, value) in new_params { params.insert(key, value); }
RECURSIVE insert_all(_, _)
insert_all(params, new_params) ==
    IF new_params = <<>> THEN params
    ELSE insert_all(insert(params, new_params[1].key, new_params[1].value),
                    Tail(new_params))

\* pub fn merge_parameters(query_params, body, param_types) -> Value, with
\* iter_order the order in which query_params.iter() yields the keys
merge_parameters(query_params, body, param_types, iter_order) ==
    LET params == seed_params(body)
        kept == SelectSeq(iter_order, LAMBDA key : is_new_param(params, key))
        new_params == [i \in 1..Len(kept) |->
                          Entry(kept[i],
                                converted_value(kept[i], query_params[kept[i]], param_types))]
    IN  JObject(insert_all(params, new_params))

(***************************************************************************)
(* Requests handed to merge_parameters                                     *)
(***************************************************************************)
MaxQuery == 2

MaxBody == 2

MaxTypes == 1

K_limit == <<"l", "i", "m", "i", "t">>

ParamKeys == {K_limit, K_name, K_body}

V_50 == <<"5", "0">>
V_abc == <<"a", "b", "c">>

QueryValues == {V_50, V_abc}

CatalogueKeys == {K_limit, K_name}

CatalogueTypes == {T_U32, T_String, <<"u", "3", "2">>}

BodyValues == {JString(<<"f", "r", "o", "m", "_", "b", "o", "d", "y">>), JBool(TRUE)}

Bodies ==
    {NoBody, JNull, JObject(<<>>), JString(<<"s", "i", "m", "p", "l", "e">>),
     JArray(<<JInt(SignedInt(FALSE, <<7>>))>>)}

EmptyMap == [k \in {} |-> <<>>]

\* HashMap::insert of a key the map does not hold
MapPut(m, k, v) == [x \in DOMAIN m \cup {k} |-> IF x = k THEN v ELSE m[x]]

\* the orders in which the keys of a HashMap may be iterated
Orders(keys) ==
    {order \in [1..Cardinality(keys) -> keys] :
        \A i, j \in 1..Cardinality(keys) : i # j => order[i] # order[j]}

MeIdle ==
    /\ me_pc = "idle"
    /\ me_query = EmptyMap
    /\ me_body = NoBody
    /\ me_types = EmptyMap
    /\ me_result = JNull

\* one more parameter in the query string
MeQuery(key, value) ==
    /\ me_pc = "idle"
    /\ key \notin DOMAIN me_query
    /\ Cardinality(DOMAIN me_query) < MaxQuery
    /\ me_query' = MapPut(me_query, key, value)
    /\ UNCHANGED <<me_pc, me_body, me_types, me_result>>
    /\ UNCHANGED not_me_vars

\* the request carries a body
MeBody(body) ==
    /\ me_pc = "idle"
    /\ me_body = NoBody
    /\ body # NoBody
    /\ me_body' = body
    /\ UNCHANGED <<me_pc, me_query, me_types, me_result>>
    /\ UNCHANGED not_me_vars

\* one more field in an object body
MeBodyField(key, value) ==
    /\ me_pc = "idle"
    /\ me_body.tag = "Object"
    /\ Len(me_body.entries) < MaxBody
    /\ ~contains_key(me_body.entries, key)
    /\ me_body' = JObject(insert(me_body.entries, key, value))
    /\ UNCHANGED <<me_pc, me_query, me_types, me_result>>
    /\ UNCHANGED not_me_vars

\* one more parameter in the catalogue
MeType(key, type_text) ==
    /\ me_pc = "idle"
    /\ key \notin DOMAIN me_types
    /\ Cardinality(DOMAIN me_types) < MaxTypes
    /\ me_types' = MapPut(me_types, key, type_text)
    /\ UNCHANGED <<me_pc, me_query, me_body, me_result>>
    /\ UNCHANGED not_me_vars

\* QueryParams::merge_parameters(&query_params, body.as_ref(), &param_types)
MeMerge(iter_order) ==
    /\ me_pc = "idle"
    /\ me_result' = merge_parameters(me_query, me_body, me_types, iter_order)
    /\ me_pc' = "merged"
    /\ UNCHANGED <<me_query, me_body, me_types>>
    /\ UNCHANGED not_me_vars

MeNext ==
    \/ \E key \in ParamKeys, value \in QueryValues : MeQuery(key, value)
    \/ \E body \in Bodies : MeBody(body)
    \/ \E key \in ParamKeys, value \in BodyValues : MeBodyField(key, value)
    \/ \E key \in CatalogueKeys, type_text \in CatalogueTypes : MeType(key, type_text)
    \/ \E iter_order \in Orders(DOMAIN me_query) : MeMerge(iter_order)

(***************************************************************************)
(* Type texts: a base text wrapped up to MaxWrap times                     *)
(***************************************************************************)
MaxWrap == 2

BadBaseTexts ==
    { <<>>,
      <<"i", "3", "2">>,
      <<"s", "t", "r", "i", "n", "g">>,
      <<" ", "I", "3", "2">>,
      <<"I", "3", "2", " ">>,
      <<"I", "3", "2", "I", "3", "2">>,
      <<"I", "1", "2", "8">>,
      <<"f", "6", "4">>,
      <<"U", "n", "k", "n", "o", "w", "n", "T", "y", "p", "e">> }

BaseTexts == ScalarTexts \cup BadBaseTexts

Wrappers ==
    { [pre |-> <<"[">>, post |-> <<"]">>],
      [pre |-> T_ArrayOpen, post |-> <<")">>],
      [pre |-> <<"a", "r", "r", "a", "y", "(">>, post |-> <<")">>],
      [pre |-> <<"A", "r", "r", "a", "y", "<">>, post |-> <<">">>],
      [pre |-> <<"[">>, post |-> <<>>],
      [pre |-> <<" ">>, post |-> <<>>],
      [pre |-> <<>>, post |-> <<" ">>] }

TyIdle ==
    /\ ty_pc = "idle"
    /\ ty_text = <<>>
    /\ ty_wraps = 0
    /\ ty_parsed = None
    /\ ty_shown = <<>>
    /\ ty_reparsed = None
    /\ ty_bracket = None
    /\ ty_legacy = None

TyChoose(b) ==
    /\ ty_pc = "idle"
    /\ UNCHANGED not_ty_vars
    /\ ty_pc' = "text"
    /\ ty_text' = b
    /\ UNCHANGED <<ty_wraps, ty_parsed, ty_shown, ty_reparsed, ty_bracket, ty_legacy>>

TyWrap(w) ==
    /\ ty_pc = "text"
    /\ UNCHANGED not_ty_vars
    /\ ty_wraps < MaxWrap
    /\ ty_text' = w.pre \o ty_text \o w.post
    /\ ty_wraps' = ty_wraps + 1
    /\ UNCHANGED <<ty_pc, ty_parsed, ty_shown, ty_reparsed, ty_bracket, ty_legacy>>

\* text.parse::<HelixType>()
TyParse ==
    /\ ty_pc = "text"
    /\ UNCHANGED not_ty_vars
    /\ ty_parsed' = from_str(ty_text)
    /\ ty_pc' = "parsed"
    /\ UNCHANGED <<ty_text, ty_wraps, ty_shown, ty_reparsed, ty_bracket, ty_legacy>>

\* parsed.to_string()
TyShow ==
    /\ ty_pc = "parsed"
    /\ UNCHANGED not_ty_vars
    /\ ty_parsed.ok
    /\ ty_shown' = fmt(ty_parsed.val)
    /\ ty_pc' = "shown"
    /\ UNCHANGED <<ty_text, ty_wraps, ty_parsed, ty_reparsed, ty_bracket, ty_legacy>>

\* shown.parse::<HelixType>()
TyReparse ==
    /\ ty_pc = "shown"
    /\ UNCHANGED not_ty_vars
    /\ ty_reparsed' = from_str(ty_shown)
    /\ ty_pc' = "reparsed"
    /\ UNCHANGED <<ty_text, ty_wraps, ty_parsed, ty_shown, ty_bracket, ty_legacy>>

\* format!("[{text}]").parse::<HelixType>() and
\* format!("Array({text})").parse::<HelixType>()
TyAlias ==
    /\ ty_pc = "parsed"
    /\ UNCHANGED not_ty_vars
    /\ ty_bracket' = from_str(<<"[">> \o ty_text \o <<"]">>)
    /\ ty_legacy' = from_str(T_ArrayOpen \o ty_text \o <<")">>)
    /\ ty_pc' = "aliased"
    /\ UNCHANGED <<ty_text, ty_wraps, ty_parsed, ty_shown, ty_reparsed>>

TyNext ==
    \/ \E b \in BaseTexts : TyChoose(b)
    \/ \E w \in Wrappers : TyWrap(w)
    \/ TyParse
    \/ TyShow
    \/ TyReparse
    \/ TyAlias

(***************************************************************************)
(* Float lists: up to MaxItems element texts, written once as a JSON array *)
(* literal and once as a comma-separated list, both coerced to [F64]       *)
(***************************************************************************)
MaxItems == 3

\* element texts that are JSON numbers with a finite value
JsonItemTexts ==
    { <<"1", ".", "0">>,
      <<"2", ".", "5">>,
      <<"-", "3">>,
      <<"1", "e", "5">> }

\* element texts f64's FromStr accepts and JSON does not
RustOnlyItemTexts ==
    { <<".", "5">>,
      <<"i", "n", "f">>,
      <<"N", "a", "N">>,
      <<"1", "e", "9", "9", "9">> }

\* element texts that are no float at all
BadItemTexts == { <<"i", "n", "v", "a", "l", "i", "d">>, <<>> }

ItemTexts == JsonItemTexts \cup RustOnlyItemTexts \cup BadItemTexts

Separators == { <<",">>, <<",", " ">> }

\* the elements with the separator between each two of them
RECURSIVE Join(_, _)
Join(items, sep) ==
    IF items = <<>> THEN <<>>
    ELSE IF Len(items) = 1 THEN items[1]
    ELSE items[1] \o sep \o Join(Tail(items), sep)

ArrayLiteral(items, sep) == <<"[">> \o Join(items, sep) \o <<"]">>

ArIdle ==
    /\ ar_pc = "idle"
    /\ ar_items = <<>>
    /\ ar_sep = <<",">>
    /\ ar_bracket = None
    /\ ar_list = None

ArStart(sep) ==
    /\ ar_pc = "idle"
    /\ ar_pc' = "items"
    /\ ar_sep' = sep
    /\ UNCHANGED <<ar_items, ar_bracket, ar_list>>
    /\ UNCHANGED not_ar_vars

ArPush(item) ==
    /\ ar_pc = "items"
    /\ Len(ar_items) < MaxItems
    /\ ar_items' = Append(ar_items, item)
    /\ UNCHANGED <<ar_pc, ar_sep, ar_bracket, ar_list>>
    /\ UNCHANGED not_ar_vars

\* "[1.0, 2.0]".to_json(&array_type) and "1.0, 2.0".to_json(&array_type)
ArToJson ==
    /\ ar_pc = "items"
    /\ ar_pc' = "done"
    /\ ar_bracket' = to_json(ArrayLiteral(ar_items, ar_sep), Array(Scalar("F64")))
    /\ ar_list' = to_json(Join(ar_items, ar_sep), Array(Scalar("F64")))
    /\ UNCHANGED <<ar_items, ar_sep>>
    /\ UNCHANGED not_ar_vars

ArNext ==
    \/ \E sep \in Separators : ArStart(sep)
    \/ \E item \in ItemTexts : ArPush(item)
    \/ ArToJson

(***************************************************************************)
(* core/schema_parser.rs.  A schema text is the sequence of its lines      *)
(* (content.lines()); the cursor index counts from 0 as in the code.       *)
(***************************************************************************)
\* str::trim_end_matches(pat): pat removed from the end as often as it matches
RECURSIVE trim_end_matches(_, _)
trim_end_matches(s, pat) ==
    IF EndsWith(s, pat) THEN trim_end_matches(SubSeq(s, 1, Len(s) - Len(pat)), pat)
    ELSE s

\* str::strip_prefix
strip_prefix(s, prefix) ==
    IF StartsWith(s, prefix) THEN Ok(SubSeq(s, Len(prefix) + 1, Len(s))) ELSE None

P_N == <<"N", ":", ":">>

P_V == <<"V", ":", ":">>

P_E == <<"E", ":", ":">>

P_From == <<"F", "r", "o", "m", ":">>

P_To == <<"T", "o", ":">>

P_Comment == <<"/", "/">>

OpenBrace == <<" ", "{">>

CloseLine == <<"}">>

PropertiesOpen == <<"P", "r", "o", "p", "e", "r", "t", "i", "e", "s", ":", " ", "{">>

ArrayLt == <<"A", "r", "r", "a", "y", "<">>

\* prop_line.is_empty() || prop_line.starts_with("//")
is_skipped(line) == line = <<>> \/ StartsWith(line, P_Comment)

\* A normalization that keeps the brackets (mutation of normalized_type)
normalized_type_verbatim(prop_type) == prop_type

\* match prop_type.starts_with('[') && prop_type.ends_with(']')
normalized_type(prop_type) ==
    IF StartsWith(prop_type, <<"[">>) /\ EndsWith(prop_type, <<"]">>)
    THEN ArrayLt \o Slice(prop_type, 1, Len(prop_type) - 1) \o <<">">>
    ELSE prop_type

\* fn parse_property_line(line: &str) -> Option<(String, String)>
parse_property_line(line) ==
    LET clean_line == trim_end_matches(Trim(line), <<",">>)
        colon_pos == FirstIn(clean_line, {":"})
    IN  IF colon_pos = 0 THEN None
        ELSE Ok([name |-> Trim(SubSeq(clean_line, 1, colon_pos - 1)),
                 type |-> normalized_type(
                              Trim(SubSeq(clean_line, colon_pos + 1, Len(clean_line))))])

\* A loop that also ends at a line that starts a block, and leaves it to the
\* caller (mutation of property_loop)
RECURSIVE property_loop_to_header(_, _, _)
property_loop_to_header(lines, index, properties) ==
    IF index >= Len(lines) THEN [index |-> index, properties |-> properties]
    ELSE LET prop_line == Trim(lines[index + 1])
             parsed == parse_property_line(prop_line)
         IN  IF prop_line = CloseLine
             THEN [index |-> index + 1, properties |-> properties]
             ELSE IF \E p \in {P_N, P_V, P_E} : StartsWith(prop_line, p)
             THEN [index |-> index, properties |-> properties]
             ELSE IF is_skipped(prop_line)
             THEN property_loop_to_header(lines, index + 1, properties)
             ELSE IF parsed.ok
             THEN property_loop_to_header(lines, index + 1,
                                          MapPut(properties, parsed.val.name, parsed.val.type))
             ELSE property_loop_to_header(lines, index + 1, properties)

\* the property loop of NodeType and VectorType::parse_from_lines: from the
\* line at index to the closing line or the end of the lines
RECURSIVE property_loop(_, _, _)
property_loop(lines, index, properties) ==
    IF index >= Len(lines) THEN [index |-> index, properties |-> properties]
    ELSE LET prop_line == Trim(lines[index + 1])
             parsed == parse_property_line(prop_line)
         IN  IF prop_line = CloseLine
             THEN [index |-> index + 1, properties |-> properties]
             ELSE IF is_skipped(prop_line)
             THEN property_loop(lines, index + 1, properties)
             ELSE IF parsed.ok
             THEN property_loop(lines, index + 1,
                                MapPut(properties, parsed.val.name, parsed.val.type))
             ELSE property_loop(lines, index + 1, properties)

\* A header that must carry a name (mutation of node_name_part)
node_name_part_named(line) ==
    IF Len(line) > 3 /\ StartsWith(line, P_N) THEN strip_prefix(line, P_N)
    ELSE IF Len(line) > 3 THEN strip_prefix(line, P_V)
    ELSE None

\* line.strip_prefix("N::").or_else(|| line.strip_prefix("V::"))
node_name_part(line) ==
    IF strip_prefix(line, P_N).ok THEN strip_prefix(line, P_N)
    ELSE strip_prefix(line, P_V)

\* NodeType::parse_from_lines(lines, index): the Result and the new index
node_parse_from_lines(lines, index) ==
    LET line == Trim(lines[index + 1])
        node_type == IF StartsWith(line, P_N) THEN "N" ELSE "V"
        name_part == node_name_part(line)
        body == property_loop(lines, index + 1, EmptyMap)
    IN  IF ~name_part.ok
        THEN [result |-> Err("Invalid node definition"), index |-> index]
        ELSE [result |-> Ok([name |-> Trim(trim_end_matches(name_part.val, OpenBrace)),
                             node_type |-> node_type,
                             properties |-> body.properties]),
              index |-> body.index]

\* line.strip_prefix("V::").or_else(|| line.strip_prefix("N::"))
vector_name_part(line) ==
    IF strip_prefix(line, P_V).ok THEN strip_prefix(line, P_V)
    ELSE strip_prefix(line, P_N)

\* VectorType::parse_from_lines(lines, index): the Result and the new index
vector_parse_from_lines(lines, index) ==
    LET line == Trim(lines[index + 1])
        vector_type == IF StartsWith(line, P_V) THEN "V" ELSE "N"
        name_part == vector_name_part(line)
        body == property_loop(lines, index + 1, EmptyMap)
    IN  IF ~name_part.ok
        THEN [result |-> Err("Invalid vector definition"), index |-> index]
        ELSE [result |-> Ok([name |-> Trim(trim_end_matches(name_part.val, OpenBrace)),
                             vector_type |-> vector_type,
                             properties |-> body.properties]),
              index |-> body.index]

\* the loop of EdgeType::parse_from_lines; e holds from_node, to_node,
\* properties and in_properties_section
RECURSIVE edge_loop(_, _, _)
edge_loop(lines, index, e) ==
    IF index >= Len(lines) THEN [index |-> index, edge |-> e]
    ELSE LET edge_line == Trim(lines[index + 1])
             parsed == parse_property_line(edge_line)
             next(e2) == edge_loop(lines, index + 1, e2)
         IN  IF edge_line = CloseLine
             THEN [index |-> index + 1, edge |-> e]
             ELSE IF is_skipped(edge_line) THEN next(e)
             ELSE IF StartsWith(edge_line, P_From)
             THEN next([e EXCEPT !.from_node =
                            trim_end_matches(Trim(strip_prefix(edge_line, P_From).val),
                                             <<",">>)])
             ELSE IF StartsWith(edge_line, P_To)
             THEN next([e EXCEPT !.to_node =
                            trim_end_matches(Trim(strip_prefix(edge_line, P_To).val),
                                             <<",">>)])
             ELSE IF edge_line = PropertiesOpen
             THEN next([e EXCEPT !.in_properties_section = TRUE])
             ELSE IF edge_line = CloseLine /\ e.in_properties_section
             THEN next([e EXCEPT !.in_properties_section = FALSE])
             ELSE IF e.in_properties_section /\ parsed.ok
             THEN next([e EXCEPT !.properties =
                            MapPut(e.properties, parsed.val.name, parsed.val.type)])
             ELSE next(e)

\* EdgeType::parse_from_lines(lines, index): the Result and the new index
edge_parse_from_lines(lines, index) ==
    LET line == Trim(lines[index + 1])
        name_part == strip_prefix(line, P_E)
        body == edge_loop(lines, index + 1,
                          [from_node |-> <<>>, to_node |-> <<>>,
                           properties |-> EmptyMap, in_properties_section |-> FALSE])
    IN  IF ~name_part.ok
        THEN [result |-> Err("Invalid edge definition"), index |-> index]
        ELSE [result |-> Ok([name |-> Trim(trim_end_matches(name_part.val, OpenBrace)),
                             from_node |-> body.edge.from_node,
                             to_node |-> body.edge.to_node,
                             properties |-> body.edge.properties]),
              index |-> body.index]

\* SchemaInfo { nodes, edges, vectors }
SchemaInfo(nodes, edges, vectors) == [nodes |-> nodes, edges |-> edges, vectors |-> vectors]

\* the loop of SchemaInfo::from_content, i the cursor and schema the lists so
\* far; a failed block parse ends the loop with its error (the ? operator)
RECURSIVE content_loop(_, _, _)
content_loop(lines, i, schema) ==
    IF i >= Len(lines) THEN Ok(schema)
    ELSE LET line == Trim(lines[i + 1])
             node == node_parse_from_lines(lines, i)
             vector == vector_parse_from_lines(lines, i)
             edge == edge_parse_from_lines(lines, i)
         IN  IF is_skipped(line) THEN content_loop(lines, i + 1, schema)
             ELSE IF StartsWith(line, P_N)
             THEN IF ~node.result.ok THEN node.result
                  ELSE content_loop(lines, node.index,
                           [schema EXCEPT !.nodes = Append(@, node.result.val)])
             ELSE IF StartsWith(line, P_V)
             THEN IF ~vector.result.ok THEN vector.result
                  ELSE content_loop(lines, vector.index,
                           [schema EXCEPT !.vectors = Append(@, vector.result.val)])
             ELSE IF StartsWith(line, P_E)
             THEN IF ~edge.result.ok THEN edge.result
                  ELSE content_loop(lines, edge.index,
                           [schema EXCEPT !.edges = Append(@, edge.result.val)])
             ELSE content_loop(lines, i + 1, schema)

\* pub fn from_content(content: &str) -> anyhow::Result<Self>
from_content(lines) == content_loop(lines, 0, SchemaInfo(<<>>, <<>>, <<>>))

\* pub fn from_file(file_path: &str) -> anyhow::Result<Self>, with read the
\* outcome of fs::read_to_string
from_file(read) == IF read.ok THEN from_content(read.val) ELSE read

(***************************************************************************)
(* Schema texts: up to MaxLines lines, written block by block, of which up *)
(* to MaxNoise lines are outside the grammar.  sc_blocks records what the  *)
(* writer of the text means by each block.                                 *)
(***************************************************************************)
MaxLines == 7

MaxNoise == 1

HeaderLines ==
    { [text |-> <<"N", ":", ":", "U", "s", "e", "r", " ", "{">>, kind |-> "N", name |-> <<"U", "s", "e", "r">>],
      [text |-> <<"V", ":", ":", "D", "o", "c", " ", "{">>, kind |-> "V", name |-> <<"D", "o", "c">>],
      [text |-> <<" ", " ", "E", ":", ":", "F", "o", "l", "l", "o", "w", "s", " ", "{">>, kind |-> "E", name |-> <<"F", "o", "l", "l", "o", "w", "s">>] }

PropertyLines ==
    { [text |-> <<" ", " ", " ", " ", "n", "a", "m", "e", ":", " ", "S", "t", "r", "i", "n", "g", ",">>, mode |-> "node", name |-> <<"n", "a", "m", "e">>, type |-> <<"S", "t", "r", "i", "n", "g">>],
      [text |-> <<" ", " ", " ", " ", "e", "m", "b", ":", " ", "[", "F", "6", "4", "]">>, mode |-> "node", name |-> <<"e", "m", "b">>, type |-> <<"A", "r", "r", "a", "y", "<", "F", "6", "4", ">">>],
      [text |-> <<" ", " ", " ", " ", " ", " ", " ", " ", "s", "i", "n", "c", "e", ":", " ", "S", "t", "r", "i", "n", "g">>, mode |-> "props", name |-> <<"s", "i", "n", "c", "e">>, type |-> <<"S", "t", "r", "i", "n", "g">>] }

EndpointLines ==
    { [text |-> <<" ", " ", " ", " ", "F", "r", "o", "m", ":", " ", "U", "s", "e", "r", ",">>, field |-> "from_node", name |-> <<"U", "s", "e", "r">>],
      [text |-> <<" ", " ", " ", " ", "T", "o", ":", " ", "P", "o", "s", "t">>, field |-> "to_node", name |-> <<"P", "o", "s", "t">>] }

PropertiesLine == <<" ", " ", " ", " ", "P", "r", "o", "p", "e", "r", "t", "i", "e", "s", ":", " ", "{">>

ClosingLine == <<" ", " ", "}">>

\* lines the grammar has no production for
StrayLines == { <<"/", "/", " ", "n", "o", "t", "e">>, <<>>, <<"i", "n", "v", "a", "l", "i", "d", " ", "l", "i", "n", "e">>, <<" ", " ", " ", " ", "w", "e", "i", "g", "h", "t", ":", " ", "F", "6", "4">> }

\* lines that start like a block header and are none
BrokenHeaderLines == { <<"N", ":", ":">>, <<"E", ":", ":", "K", "n", "o", "w", "s">> }

Block(kind, name) ==
    [kind |-> kind, name |-> name, properties |-> EmptyMap, from_node |-> <<>>,
     to_node |-> <<>>, closed |-> FALSE]

InText(text) == \E i \in 1..Len(sc_lines) : sc_lines[i] = text

ScIdle ==
    /\ sc_pc = "idle"
    /\ sc_lines = <<>>
    /\ sc_mode = "top"
    /\ sc_noise = 0
    /\ sc_malformed = FALSE
    /\ sc_blocks = <<>>
    /\ sc_readable = TRUE
    /\ sc_result = None

ScStart ==
    /\ sc_pc = "idle"
    /\ sc_pc' = "lines"
    /\ UNCHANGED <<sc_lines, sc_mode, sc_noise, sc_malformed, sc_blocks, sc_readable,
                   sc_result>>
    /\ UNCHANGED not_sc_vars

ScWrite(text) ==
    /\ sc_pc = "lines"
    /\ Len(sc_lines) < MaxLines
    /\ sc_lines' = Append(sc_lines, text)
    /\ UNCHANGED <<sc_pc, sc_readable, sc_result>>
    /\ UNCHANGED not_sc_vars

ScHeader(h) ==
    /\ sc_mode = "top"
    /\ ~InText(h.text)
    /\ ScWrite(h.text)
    /\ sc_mode' = IF h.kind = "E" THEN "edge" ELSE "node"
    /\ sc_blocks' = Append(sc_blocks, Block(h.kind, h.name))
    /\ UNCHANGED <<sc_noise, sc_malformed>>

ScProperty(p) ==
    /\ sc_mode = p.mode
    /\ ~InText(p.text)
    /\ ScWrite(p.text)
    /\ sc_blocks' = [sc_blocks EXCEPT ![Len(sc_blocks)].properties =
                         MapPut(@, p.name, p.type)]
    /\ UNCHANGED <<sc_mode, sc_noise, sc_malformed>>

ScEndpoint(e) ==
    /\ sc_mode = "edge"
    /\ ~InText(e.text)
    /\ ScWrite(e.text)
    /\ sc_blocks' = [sc_blocks EXCEPT ![Len(sc_blocks)][e.field] = e.name]
    /\ UNCHANGED <<sc_mode, sc_noise, sc_malformed>>

ScOpenProperties ==
    /\ sc_mode = "edge"
    /\ ~InText(PropertiesLine)
    /\ ScWrite(PropertiesLine)
    /\ sc_mode' = "props"
    /\ UNCHANGED <<sc_noise, sc_malformed, sc_blocks>>

ScClose ==
    /\ sc_mode # "top"
    /\ ScWrite(ClosingLine)
    /\ sc_mode' = IF sc_mode = "props" THEN "edge" ELSE "top"
    /\ sc_blocks' = IF sc_mode = "props" THEN sc_blocks
                    ELSE [sc_blocks EXCEPT ![Len(sc_blocks)].closed = TRUE]
    /\ UNCHANGED <<sc_noise, sc_malformed>>

ScStray(text) ==
    /\ sc_noise < MaxNoise
    /\ parse_property_line(text).ok => sc_mode \in {"top", "edge"}
    /\ ScWrite(text)
    /\ sc_noise' = sc_noise + 1
    /\ sc_malformed' = (sc_malformed \/ text \in BrokenHeaderLines)
    /\ UNCHANGED <<sc_mode, sc_blocks>>

\* a line that reads like a block header, written inside a block: by the
\* grammar it is no header
ScNestedHeader(h) ==
    /\ sc_mode # "top"
    /\ sc_noise < MaxNoise
    /\ ~InText(h.text)
    /\ ScWrite(h.text)
    /\ sc_noise' = sc_noise + 1
    /\ sc_malformed' = TRUE
    /\ UNCHANGED <<sc_mode, sc_blocks>>

\* SchemaInfo::from_file(path), the file readable or not
ScFromFile(readable) ==
    /\ sc_pc = "lines"
    /\ sc_pc' = "done"
    /\ sc_readable' = readable
    /\ sc_result' = from_file(IF readable THEN Ok(sc_lines) ELSE Err("Io"))
    /\ UNCHANGED <<sc_lines, sc_mode, sc_noise, sc_malformed, sc_blocks>>
    /\ UNCHANGED not_sc_vars

ScNext ==
    \/ ScStart
    \/ \E h \in HeaderLines : ScHeader(h)
    \/ \E p \in PropertyLines : ScProperty(p)
    \/ \E e \in EndpointLines : ScEndpoint(e)
    \/ ScOpenProperties
    \/ ScClose
    \/ \E text \in StrayLines \cup BrokenHeaderLines : ScStray(text)
    \/ \E h \in HeaderLines : ScNestedHeader(h)
    \/ \E readable \in BOOLEAN : ScFromFile(readable)

(***************************************************************************)
(* core/query_parser.rs                                                    *)
(***************************************************************************)
\* index of the first place where pat occurs in s, 0 when it does not
Find(s, pat) ==
    IF \E i \in 1..(Len(s) - Len(pat) + 1) : SubSeq(s, i, i + Len(pat) - 1) = pat
    THEN CHOOSE i \in 1..(Len(s) - Len(pat) + 1) :
             /\ SubSeq(s, i, i + Len(pat) - 1) = pat
             /\ \A j \in 1..(i - 1) : SubSeq(s, j, j + Len(pat) - 1) # pat
    ELSE 0

\* str::split(pat) for a text pattern: the pieces between the occurrences
RECURSIVE SplitOn(_, _)
SplitOn(s, pat) ==
    LET at == Find(s, pat)
    IN  IF at = 0 THEN <<s>>
        ELSE <<SubSeq(s, 1, at - 1)>> \o SplitOn(SubSeq(s, at + Len(pat), Len(s)), pat)

\* str::split_once(pat)
split_once(s, pat) ==
    LET at == Find(s, pat)
    IN  IF at = 0 THEN None
        ELSE Ok(<<SubSeq(s, 1, at - 1), SubSeq(s, at + Len(pat), Len(s))>>)

\* str::replace(pat, to)
RECURSIVE replace(_, _, _)
replace(s, pat, to) ==
    LET at == Find(s, pat)
    IN  IF at = 0 THEN s
        ELSE SubSeq(s, 1, at - 1) \o to \o replace(SubSeq(s, at + Len(pat), Len(s)), pat, to)

UpperLetters == <<"A", "B", "C", "D", "E", "F", "G", "H", "I", "J", "K", "L", "M", "N", "O", "P", "Q", "R", "S", "T", "U", "V", "W", "X", "Y", "Z">>

LowerLetters == <<"a", "b", "c", "d", "e", "f", "g", "h", "i", "j", "k", "l", "m", "n", "o", "p", "q", "r", "s", "t", "u", "v", "w", "x", "y", "z">>

\* char::is_uppercase
is_uppercase(ch) == \E i \in 1..Len(UpperLetters) : UpperLetters[i] = ch

\* char::to_lowercase
to_lowercase_char(ch) ==
    IF is_uppercase(ch)
    THEN LowerLetters[CHOOSE i \in 1..Len(UpperLetters) : UpperLetters[i] = ch]
    ELSE ch

\* str::to_lowercase
to_lowercase(s) == [i \in 1..Len(s) |-> to_lowercase_char(s[i])]

\* A table that leaves every type text as it is (mutation of
\* map_helix_type_to_rust)
map_helix_type_verbatim(helix_type) == helix_type

\* fn map_helix_type_to_rust(helix_type: &str) -> String
map_helix_type_to_rust(helix_type) ==
    CASE helix_type = <<"S", "t", "r", "i", "n", "g">> -> <<"S", "t", "r", "i", "n", "g">>
      [] helix_type = <<"I", "3", "2">> -> <<"i", "3", "2">>
      [] helix_type = <<"I", "6", "4">> -> <<"i", "6", "4">>
      [] helix_type = <<"F", "6", "4">> -> <<"f", "6", "4">>
      [] helix_type = <<"I", "D">> -> <<"S", "t", "r", "i", "n", "g">>
      [] helix_type = <<"[", "F", "6", "4", "]">> -> <<"V", "e", "c", "<", "f", "6", "4", ">">>
      [] OTHER -> helix_type

\* A constructor that stores the type text as declared (mutation of
\* QueryParameter)
QueryParameter_as_declared(name, param_type) ==
    [name |-> name, param_type |-> param_type]

\* QueryParameter::new
QueryParameter(name, param_type) ==
    [name |-> name, param_type |-> map_helix_type_to_rust(param_type)]

\* the loop of parse_multiple over the pieces of params_str.split(", ")
RECURSIVE parse_items(_)
parse_items(pieces) ==
    IF pieces = <<>> THEN <<>>
    ELSE LET param == Trim(Head(pieces))
             pair == split_once(param, <<":", " ">>)
         IN  (IF pair.ok
              THEN <<QueryParameter(Trim(pair.val[1]), Trim(pair.val[2]))>>
              ELSE <<>>) \o parse_items(Tail(pieces))

\* QueryParameter::parse_multiple(params_str: &str) -> Vec<Self>
parse_multiple(params_str) ==
    IF Trim(params_str) = <<>> THEN <<>>
    ELSE parse_items(SplitOn(params_str, <<",", " ">>))

\* A method choice that compares the name as written (mutation of http_method)
http_method_cased(query_name) ==
    IF StartsWith(query_name, <<"c", "r", "e", "a", "t", "e">>) \/ StartsWith(query_name, <<"a", "d", "d">>) THEN "POST"
    ELSE IF StartsWith(query_name, <<"u", "p", "d", "a", "t", "e">>) THEN "PUT"
    ELSE IF StartsWith(query_name, <<"d", "e", "l", "e", "t", "e">>) \/ StartsWith(query_name, <<"r", "e", "m", "o", "v", "e">>)
    THEN "DELETE"
    ELSE "GET"

\* let method = match query_name.to_lowercase().as_str() { .. }
http_method(query_name) ==
    LET name == to_lowercase(query_name)
    IN  IF StartsWith(name, <<"c", "r", "e", "a", "t", "e">>) \/ StartsWith(name, <<"a", "d", "d">>) THEN "POST"
        ELSE IF StartsWith(name, <<"u", "p", "d", "a", "t", "e">>) THEN "PUT"
        ELSE IF StartsWith(name, <<"d", "e", "l", "e", "t", "e">>) \/ StartsWith(name, <<"r", "e", "m", "o", "v", "e">>) THEN "DELETE"
        ELSE "GET"

\* fn convert_camel_to_kebab(camel_case: &str) -> String: the fold over the
\* characters, i counting from 0
RECURSIVE kebab_fold(_, _, _)
kebab_fold(acc, camel_case, i) ==
    IF i >= Len(camel_case) THEN acc
    ELSE LET ch == camel_case[i + 1]
             dashed == IF is_uppercase(ch) /\ i > 0 THEN Append(acc, "-") ELSE acc
         IN  kebab_fold(Append(dashed, to_lowercase_char(ch)), camel_case, i + 1)

convert_camel_to_kebab(camel_case) == kebab_fold(<<>>, camel_case, 0)

\* A filter that takes every name ending in "id" (mutation of is_path_param)
is_path_param_loose(name) == EndsWith(name, <<"i", "d">>)

\* param.name.ends_with("_id") || param.name == "id"
is_path_param(name) == EndsWith(name, <<"_", "i", "d">>) \/ name = <<"i", "d">>

\* parameters.iter().filter(..).map(|param| format!("{{{}}}", param.name))
RECURSIVE path_params(_)
path_params(parameters) ==
    IF parameters = <<>> THEN <<>>
    ELSE (IF is_path_param(Head(parameters).name)
          THEN << <<"{">> \o Head(parameters).name \o <<"}">> >>
          ELSE <<>>) \o path_params(Tail(parameters))

ApiQuery == <<"/", "a", "p", "i", "/", "q", "u", "e", "r", "y", "/">>

\* fn generate_endpoint_path(query_name, parameters) -> String
generate_endpoint_path(query_name, parameters) ==
    LET base_path == convert_camel_to_kebab(query_name)
        params == path_params(parameters)
    IN  IF params = <<>> THEN ApiQuery \o base_path
        ELSE ApiQuery \o base_path \o <<"/">> \o Join(params, <<"/">>)

\* fn determine_endpoint_info(query_name, parameters) -> (String, String)
determine_endpoint_info(query_name, parameters) ==
    <<http_method(query_name), generate_endpoint_path(query_name, parameters)>>

QueryWord == <<"Q", "U", "E", "R", "Y", " ">>

\* QueryDefinition::from_line(line: &str) -> Option<Self>
from_line(line) ==
    LET parts == SplitOn(line, <<" ", "(">>)
        name == Trim(replace(parts[1], QueryWord, <<>>))
        params_section == SplitOn(parts[2], <<")", " ", "=", ">">>)[1]
        parameters == parse_multiple(params_section)
        info == determine_endpoint_info(name, parameters)
    IN  IF Len(parts) < 2 THEN None
        ELSE Ok([name |-> name, parameters |-> parameters,
                 http_method |-> info[1], endpoint_path |-> info[2]])

\* the loop of QueryDefinition::from_file over content.lines()
RECURSIVE query_lines(_)
query_lines(lines) ==
    IF lines = <<>> THEN <<>>
    ELSE LET line == Trim(Head(lines))
         IN  (IF StartsWith(line, QueryWord) /\ from_line(line).ok
              THEN <<from_line(line).val>>
              ELSE <<>>) \o query_lines(Tail(lines))

\* QueryDefinition::from_file(file_path) -> anyhow::Result<Vec<Self>>, with
\* read the outcome of fs::read_to_string
query_from_file(read) == IF read.ok THEN Ok(query_lines(read.val)) ELSE read

(***************************************************************************)
(* Query-definition texts: one QUERY line with a name and up to MaxParams  *)
(* parameter items, in a file after a comment line.  Each name and item    *)
(* carries what its writer expects of it.                                  *)
(***************************************************************************)
MaxParams == 2

QueryNames ==
    { [text |-> <<"g", "e", "t", "U", "s", "e", "r", "B", "y", "I", "d">>, method |-> "GET", kebab |-> <<"g", "e", "t", "-", "u", "s", "e", "r", "-", "b", "y", "-", "i", "d">>],
      [text |-> <<"c", "r", "e", "a", "t", "e", "U", "s", "e", "r">>, method |-> "POST", kebab |-> <<"c", "r", "e", "a", "t", "e", "-", "u", "s", "e", "r">>],
      [text |-> <<"A", "d", "d", "P", "o", "s", "t">>, method |-> "POST", kebab |-> <<"a", "d", "d", "-", "p", "o", "s", "t">>],
      [text |-> <<"U", "P", "D", "A", "T", "E">>, method |-> "PUT", kebab |-> <<"u", "-", "p", "-", "d", "-", "a", "-", "t", "-", "e">>],
      [text |-> <<"d", "e", "l", "e", "t", "e", "U", "s", "e", "r">>, method |-> "DELETE", kebab |-> <<"d", "e", "l", "e", "t", "e", "-", "u", "s", "e", "r">>],
      [text |-> <<"R", "e", "m", "o", "v", "e", "T", "a", "g">>, method |-> "DELETE", kebab |-> <<"r", "e", "m", "o", "v", "e", "-", "t", "a", "g">>],
      [text |-> <<"u", "s", "e", "r">>, method |-> "GET", kebab |-> <<"u", "s", "e", "r">>],
      [text |-> <<"f", "r", "o", "m", "D", "B">>, method |-> "GET", kebab |-> <<"f", "r", "o", "m", "-", "d", "-", "b">>],
      [text |-> <<"r", "e", "c", "r", "e", "a", "t", "e">>, method |-> "GET", kebab |-> <<"r", "e", "c", "r", "e", "a", "t", "e">>] }

ParamItems ==
    { [text |-> <<"u", "s", "e", "r", "_", "i", "d", ":", " ", "I", "D">>, name |-> <<"u", "s", "e", "r", "_", "i", "d">>, type |-> <<"S", "t", "r", "i", "n", "g">>, kept |-> TRUE,
       in_path |-> TRUE],
      [text |-> <<"i", "d", ":", " ", "S", "t", "r", "i", "n", "g">>, name |-> <<"i", "d">>, type |-> <<"S", "t", "r", "i", "n", "g">>, kept |-> TRUE,
       in_path |-> TRUE],
      [text |-> <<"n", "a", "m", "e", ":", " ", "S", "t", "r", "i", "n", "g">>, name |-> <<"n", "a", "m", "e">>, type |-> <<"S", "t", "r", "i", "n", "g">>, kept |-> TRUE,
       in_path |-> FALSE],
      [text |-> <<"a", "g", "e", ":", " ", "I", "3", "2">>, name |-> <<"a", "g", "e">>, type |-> <<"i", "3", "2">>, kept |-> TRUE,
       in_path |-> FALSE],
      [text |-> <<"u", "u", "i", "d", ":", " ", "I", "6", "4">>, name |-> <<"u", "u", "i", "d">>, type |-> <<"i", "6", "4">>, kept |-> TRUE,
       in_path |-> FALSE],
      [text |-> <<"v", "e", "c", ":", " ", "[", "F", "6", "4", "]">>, name |-> <<"v", "e", "c">>, type |-> <<"V", "e", "c", "<", "f", "6", "4", ">">>, kept |-> TRUE,
       in_path |-> FALSE],
      [text |-> <<"n", ":", " ", " ", "U", "3", "2">>, name |-> <<"n">>, type |-> <<"U", "3", "2">>, kept |-> TRUE,
       in_path |-> FALSE],
      [text |-> <<"c", "o", "u", "n", "t", ":", " ", "U", "6", "4">>, name |-> <<"c", "o", "u", "n", "t">>, type |-> <<"U", "6", "4">>, kept |-> TRUE,
       in_path |-> FALSE],
      [text |-> <<"b", "i", "g", ":", " ", "U", "1", "2", "8">>, name |-> <<"b", "i", "g">>, type |-> <<"U", "1", "2", "8">>, kept |-> TRUE,
       in_path |-> FALSE],
      [text |-> <<"s", "c", "o", "r", "e", ":", " ", "F", "6", "4">>, name |-> <<"s", "c", "o", "r", "e">>, type |-> <<"f", "6", "4">>, kept |-> TRUE,
       in_path |-> FALSE],
      [text |-> <<"i", "n", "v", "a", "l", "i", "d">>, name |-> <<>>, type |-> <<>>, kept |-> FALSE,
       in_path |-> FALSE] }

QueryShapes == {"full", "blank", "incomplete"}

ItemTextsOf(items) == [i \in 1..Len(items) |-> items[i].text]

\* the QUERY line of the file
QueryLine(name, items, shape) ==
    CASE shape = "full" ->
            QueryWord \o name.text \o <<" ", "(">> \o Join(ItemTextsOf(items), <<",", " ">>) \o <<")", " ", "=", ">", " ", "U", "s", "e", "r">>
      [] shape = "blank" -> QueryWord \o name.text \o <<" ", "(", " ", " ", " ", ")", " ", "=", ">", " ", "[", "U", "s", "e", "r", "]">>
      [] shape = "incomplete" -> QueryWord \o name.text

\* the lines of the file
QueryFile(name, items, shape) ==
    << <<"/", "/", " ", "S", "o", "m", "e", " ", "c", "o", "m", "m", "e", "n", "t">>, <<"I", "N", "V", "A", "L", "I", "D", " ", "L", "I", "N", "E">>, <<" ", " ", " ", " ">> \o QueryLine(name, items, shape) >>

QpIdle ==
    /\ qp_pc = "idle"
    /\ qp_name = [text |-> <<>>, method |-> "GET", kebab |-> <<>>]
    /\ qp_items = <<>>
    /\ qp_shape = "full"
    /\ qp_result = None

QpName(name, shape) ==
    /\ qp_pc = "idle"
    /\ qp_pc' = "line"
    /\ qp_name' = name
    /\ qp_shape' = shape
    /\ UNCHANGED <<qp_items, qp_result>>
    /\ UNCHANGED not_qp_vars

QpItem(item) ==
    /\ qp_pc = "line"
    /\ qp_shape = "full"
    /\ Len(qp_items) < MaxParams
    /\ qp_items' = Append(qp_items, item)
    /\ UNCHANGED <<qp_pc, qp_name, qp_shape, qp_result>>
    /\ UNCHANGED not_qp_vars

\* QueryDefinition::from_file(path), the file readable or not
QpFromFile(readable) ==
    /\ qp_pc = "line"
    /\ qp_pc' = IF readable THEN "done" ELSE "unread"
    /\ qp_result' = query_from_file(IF readable
                                    THEN Ok(QueryFile(qp_name, qp_items, qp_shape))
                                    ELSE Err("Io"))
    /\ UNCHANGED <<qp_name, qp_items, qp_shape>>
    /\ UNCHANGED not_qp_vars

QpNext ==
    \/ \E name \in QueryNames, shape \in QueryShapes : QpName(name, shape)
    \/ \E item \in ParamItems : QpItem(item)
    \/ \E readable \in BOOLEAN : QpFromFile(readable)

(***************************************************************************)
(* utils.rs: convert_string_to_type                                        *)
(***************************************************************************)
RECURSIVE Zeros(_)
Zeros(n) == IF n <= 0 THEN <<>> ELSE <<"0">> \o Zeros(n - 1)

\* f64::to_string: decimal digits without an exponent, "inf", "-inf", "NaN"
f64_to_string(f) ==
    IF f.kind = "nan" THEN <<"N", "a", "N">>
    ELSE IF f.kind = "inf" THEN (IF f.neg THEN <<"-", "i", "n", "f">> ELSE <<"i", "n", "f">>)
    ELSE LET digits == TextOf(f.mant)
             sign == IF f.neg THEN <<"-">> ELSE <<>>
             point == Len(digits) + f.exp
         IN  IF f.exp >= 0 THEN sign \o digits \o Zeros(f.exp)
             ELSE IF point > 0
             THEN sign \o SubSeq(digits, 1, point) \o <<".">>
                      \o SubSeq(digits, point + 1, Len(digits))
             ELSE sign \o <<"0", ".">> \o Zeros(0 - point) \o digits

\* Number::from(0)
NumberZero == JInt(SignedInt(FALSE, Zero))

\* let parse_number = |v: &str| -> Option<Number> { .. }
parse_number(v) ==
    IF ~parse_f64(v).ok THEN None
    ELSE IF from_f64(parse_f64(v).val).ok THEN from_f64(parse_f64(v).val)
    ELSE Ok(NumberZero)

\* utils.rs: pub fn parse_f64_array(value: &str) -> serde_json::Value
parse_f64_array_or_string(value) ==
    LET numbers == IF json_f64_vec(value).ok
                   THEN json_f64_vec(value)
                   ELSE split_f64_vec(value)
    IN  IF numbers.ok
        THEN JArray(filter_map_from_f64(numbers.val))
        ELSE JString(value)

T_ArrayF64 == <<"A", "r", "r", "a", "y", "(", "F", "6", "4", ")">>

\* A conversion whose I32 and I64 arms fall back to 0 as the unsigned arms do
\* (mutation of convert_string_to_type)
convert_string_to_type_zeroing(value, param_type) ==
    CASE param_type \in {T_String, T_ID} -> JString(value)
      [] param_type = T_I32 ->
            IF parse_i32(value).ok THEN JInt(parse_i32(value).val) ELSE NumberZero
      [] param_type = T_I64 ->
            IF parse_i64(value).ok THEN JInt(parse_i64(value).val) ELSE NumberZero
      [] param_type = T_U32 ->
            IF parse_u32(value).ok THEN JInt(parse_u32(value).val) ELSE NumberZero
      [] param_type = T_U64 ->
            IF parse_u64(value).ok THEN JInt(parse_u64(value).val) ELSE NumberZero
      [] param_type = T_U128 ->
            IF /\ parse_u128(value).ok
               /\ parse_number(f64_to_string(int_as_f64(parse_u128(value).val))).ok
            THEN parse_number(f64_to_string(int_as_f64(parse_u128(value).val))).val
            ELSE NumberZero
      [] param_type = T_F64 ->
            IF /\ parse_f64(value).ok
               /\ parse_number(f64_to_string(parse_f64(value).val)).ok
            THEN parse_number(f64_to_string(parse_f64(value).val)).val
            ELSE JString(value)
      [] param_type = T_ArrayF64 -> parse_f64_array_or_string(value)
      [] OTHER -> JString(value)

\* pub fn convert_string_to_type(value: &str, param_type: &str) -> Value
convert_string_to_type(value, param_type) ==
    CASE param_type \in {T_String, T_ID} -> JString(value)
      [] param_type = T_I32 ->
            IF parse_i32(value).ok THEN JInt(parse_i32(value).val) ELSE JString(value)
      [] param_type = T_I64 ->
            IF parse_i64(value).ok THEN JInt(parse_i64(value).val) ELSE JString(value)
      [] param_type = T_U32 ->
            IF parse_u32(value).ok THEN JInt(parse_u32(value).val) ELSE NumberZero
      [] param_type = T_U64 ->
            IF parse_u64(value).ok THEN JInt(parse_u64(value).val) ELSE NumberZero
      [] param_type = T_U128 ->
            IF /\ parse_u128(value).ok
               /\ parse_number(f64_to_string(int_as_f64(parse_u128(value).val))).ok
            THEN parse_number(f64_to_string(int_as_f64(parse_u128(value).val))).val
            ELSE NumberZero
      [] param_type = T_F64 ->
            IF /\ parse_f64(value).ok
               /\ parse_number(f64_to_string(parse_f64(value).val)).ok
            THEN parse_number(f64_to_string(parse_f64(value).val)).val
            ELSE JString(value)
      [] param_type = T_ArrayF64 -> parse_f64_array_or_string(value)
      [] OTHER -> JString(value)

(***************************************************************************)
(* web/handlers.rs: execute_query_handler                                  *)
(***************************************************************************)
\* IntrospectQuery { name, parameters }
IntrospectQuery(name, parameters) == [name |-> name, parameters |-> parameters]

\* for (param_name, param_type_val) in params { if let Some(s) = .as_str() .. }
RECURSIVE insert_type_texts(_, _)
insert_type_texts(param_types, entries) ==
    IF entries = <<>> THEN param_types
    ELSE insert_type_texts(
             IF Head(entries).value.tag = "String"
             THEN MapPut(param_types, Head(entries).key, Head(entries).value.s)
             ELSE param_types,
             Tail(entries))

\* for query in introspect_data.queries { if query.name == query_name { .. break } }
RECURSIVE first_query_types(_, _)
first_query_types(queries, query_name) ==
    IF queries = <<>> THEN EmptyMap
    ELSE IF Head(queries).name = query_name
    THEN IF Head(queries).parameters.tag = "Object"
         THEN insert_type_texts(EmptyMap, Head(queries).parameters.entries)
         ELSE EmptyMap
    ELSE first_query_types(Tail(queries), query_name)

\* async fn get_query_param_types(..) -> HashMap<String, String>, with fetch
\* the outcome of fetch_cloud_introspect
get_query_param_types(fetch, query_name) ==
    IF fetch.ok THEN first_query_types(fetch.val, query_name) ELSE EmptyMap

\* let mut params = match body { .. }
handler_seed_params(body) ==
    IF body.tag = "Object" THEN body.entries
    ELSE IF body.tag # "None" /\ body.tag # "Null" THEN <<Entry(K_body, body)>>
    ELSE <<>>

\* A conversion that reads a parameter without a catalogue entry as I32
\* (mutation of handler_converted_value)
handler_converted_value_guessing(key, value, param_types) ==
    IF key \in DOMAIN param_types
    THEN convert_string_to_type(value, param_types[key])
    ELSE convert_string_to_type(value, T_I32)

\* let converted_value = if let Some(param_type) = param_types.get(&key) { .. }
handler_converted_value(key, value, param_types) ==
    IF key \in DOMAIN param_types
    THEN convert_string_to_type(value, param_types[key])
    ELSE JString(value)

\* for (key, value) in query_params { if !params.contains_key(&key) { .. } },
\* with iter_order the order in which the HashMap yields its keys
RECURSIVE handler_insert_params(_, _, _, _)
handler_insert_params(params, query_params, param_types, iter_order) ==
    IF iter_order = <<>> THEN params
    ELSE LET key == Head(iter_order)
         IN  handler_insert_params(
                 IF ~contains_key(params, key)
                 THEN insert(params, key,
                             handler_converted_value(key, query_params[key], param_types))
                 ELSE params,
                 query_params, param_types, Tail(iter_order))

K_error == <<"e", "r", "r", "o", "r">>

K_query == <<"q", "u", "e", "r", "y">>

FailedToExecute == <<"F", "a", "i", "l", "e", "d", " ", "t", "o", " ", "e", "x", "e", "c", "u", "t", "e", " ", "q", "u", "e", "r", "y", ":", " ">>

\* match app_state.helix_db.query(&query_name, &params_value).await { .. }
query_response(reply, query_name) ==
    IF reply.ok THEN sort_json_object(reply.val)
    ELSE JObject(<<Entry(K_error, JString(FailedToExecute \o reply.err)),
                   Entry(K_query, JString(query_name))>>)

(***************************************************************************)
(* Requests to execute_query_handler, with the outcomes of the two calls   *)
(* it awaits                                                               *)
(***************************************************************************)
Q_getUser == <<"g", "e", "t", "U", "s", "e", "r">>

Q_listAll == <<"l", "i", "s", "t", "A", "l", "l">>

ExQueryNames == {Q_getUser, Q_listAll}

V_2_5 == <<"2", ".", "5">>

V_minus1 == <<"-", "1">>

V_inf == <<"i", "n", "f">>

ExValues == {V_50, V_abc, V_2_5, V_minus1, V_inf}

JSeven == JInt(SignedInt(FALSE, <<7>>))

ExBodies ==
    {NoBody, JNull, JObject(<<>>), JObject(<<Entry(K_limit, JSeven)>>),
     JObject(<<Entry(K_name, JNull), Entry(K_id, JSeven)>>),
     JString(<<"s", "i", "m", "p", "l", "e">>)}

T_BracketF64 == <<"[", "F", "6", "4", "]">>

ConnectionRefused == <<"c", "o", "n", "n", "e", "c", "t", "i", "o", "n", " ", "r", "e", "f", "u", "s", "e", "d">>

IntrospectOutcomes ==
    {Err(ConnectionRefused),
     Ok(<<>>),
     Ok(<<IntrospectQuery(Q_listAll, JObject(<<Entry(K_name, JString(T_F64))>>)),
          IntrospectQuery(Q_getUser,
              JObject(<<Entry(K_limit, JString(T_U32)),
                        Entry(K_name, JString(T_String)),
                        Entry(K_body, JSeven)>>)),
          IntrospectQuery(Q_getUser, JObject(<<Entry(K_limit, JString(T_String))>>))>>),
     Ok(<<IntrospectQuery(Q_getUser, JNull),
          IntrospectQuery(Q_listAll,
              JObject(<<Entry(K_limit, JString(T_U128)),
                        Entry(K_name, JString(T_ArrayF64)),
                        Entry(K_body, JString(T_I32))>>))>>),
     Ok(<<IntrospectQuery(Q_getUser,
              JObject(<<Entry(K_limit, JString(T_BracketF64)),
                        Entry(K_name, JString(T_U64)),
                        Entry(K_body, JString(T_I64))>>)),
          IntrospectQuery(Q_listAll,
              JObject(<<Entry(K_limit, JString(T_F64)),
                        Entry(K_name, JString(T_ID)),
                        Entry(K_body, JString(<<"A", "r", "r", "a", "y", "(", "I", "3", "2", ")">>))>>))>>)}

QueryOutcomes ==
    {Err(ConnectionRefused),
     Ok(JNull),
     Ok(JObject(<<Entry(K_name, JString(V_abc)), Entry(K_id, JSeven)>>))}

ExIdle ==
    /\ ex_pc = "idle"
    /\ ex_name = <<>>
    /\ ex_query = EmptyMap
    /\ ex_body = NoBody
    /\ ex_fetch = None
    /\ ex_types = EmptyMap
    /\ ex_sent = JNull
    /\ ex_reply = None
    /\ ex_response = JNull

\* one more parameter in the query string of the request
ExQuery(key, value) ==
    /\ ex_pc = "idle"
    /\ key \notin DOMAIN ex_query
    /\ Cardinality(DOMAIN ex_query) < MaxQuery
    /\ ex_query' = MapPut(ex_query, key, value)
    /\ UNCHANGED <<ex_pc, ex_name, ex_body, ex_fetch, ex_types, ex_sent, ex_reply,
                   ex_response>>
    /\ UNCHANGED not_ex_vars

\* the request arrives; the handler seeds params from the body and awaits
\* get_query_param_types
ExRequest(query_name, body) ==
    /\ ex_pc = "idle"
    /\ ex_pc' = "fetching"
    /\ ex_name' = query_name
    /\ ex_body' = body
    /\ UNCHANGED <<ex_query, ex_fetch, ex_types, ex_sent, ex_reply, ex_response>>
    /\ UNCHANGED not_ex_vars

\* fetch_cloud_introspect returns; the handler converts the query-string
\* parameters and awaits helix_db.query
ExIntrospect(fetch, iter_order) ==
    /\ ex_pc = "fetching"
    /\ ex_pc' = "querying"
    /\ ex_fetch' = fetch
    /\ ex_types' = get_query_param_types(fetch, ex_name)
    /\ ex_sent' = JObject(handler_insert_params(handler_seed_params(ex_body),
                              ex_query, get_query_param_types(fetch, ex_name),
                              iter_order))
    /\ UNCHANGED <<ex_name, ex_query, ex_body, ex_reply, ex_response>>
    /\ UNCHANGED not_ex_vars

\* helix_db.query returns; the handler answers
ExQueryReply(reply) ==
    /\ ex_pc = "querying"
    /\ ex_pc' = "done"
    /\ ex_reply' = reply
    /\ ex_response' = query_response(reply, ex_name)
    /\ UNCHANGED <<ex_name, ex_query, ex_body, ex_fetch, ex_types, ex_sent>>
    /\ UNCHANGED not_ex_vars

ExNext ==
    \/ \E key \in ParamKeys, value \in ExValues : ExQuery(key, value)
    \/ \E query_name \in ExQueryNames, body \in ExBodies : ExRequest(query_name, body)
    \/ \E fetch \in IntrospectOutcomes, iter_order \in Orders(DOMAIN ex_query) :
           ExIntrospect(fetch, iter_order)
    \/ \E reply \in QueryOutcomes : ExQueryReply(reply)

(***************************************************************************)
(* core/schema_parser.rs, one loop iteration at a time: the cursor of      *)
(* SchemaInfo::from_content and of the parse_from_lines calls it makes     *)
(***************************************************************************)
MaxText == 4

TextLines ==
    {<<"N", ":", ":", "U", "s", "e", "r", " ", "{">>, <<"V", ":", ":", "D", "o", "c", " ", "{">>, <<" ", " ", "E", ":", ":", "F", "o", "l", "l", "o", "w", "s", " ", "{">>, <<" ", " ", "}">>, <<>>, <<" ", " ", " ", " ", "a", "g", "e", ":", " ", "I", "3", "2", ",">>,
     <<" ", " ", " ", " ", "P", "r", "o", "p", "e", "r", "t", "i", "e", "s", ":", " ", "{">>, <<" ", " ", " ", " ", "F", "r", "o", "m", ":", " ", "U", "s", "e", "r", ",">>, <<"E", ":", ":">>}

NoBlock ==
    [name |-> <<>>, kind |-> "", properties |-> EmptyMap, from_node |-> <<>>,
     to_node |-> <<>>, in_properties_section |-> FALSE]

\* the locals of parse_from_lines before its loop
BlockOf(name_part, kind) ==
    [NoBlock EXCEPT !.name = Trim(trim_end_matches(name_part, OpenBrace)),
                    !.kind = kind]

\* A closing line that ends the loop and leaves the cursor on it (mutation of
\* property_line_step)
property_line_step_break_only(prop_line, index, block) ==
    LET parsed == parse_property_line(prop_line)
    IN  IF prop_line = CloseLine
        THEN [index |-> index, block |-> block, open |-> FALSE]
        ELSE IF is_skipped(prop_line)
        THEN [index |-> index + 1, block |-> block, open |-> TRUE]
        ELSE IF parsed.ok
        THEN [index |-> index + 1,
              block |-> [block EXCEPT !.properties =
                            MapPut(@, parsed.val.name, parsed.val.type)],
              open |-> TRUE]
        ELSE [index |-> index + 1, block |-> block, open |-> TRUE]

\* one iteration of the loop of NodeType and VectorType::parse_from_lines
property_line_step(prop_line, index, block) ==
    LET parsed == parse_property_line(prop_line)
    IN  IF prop_line = CloseLine
        THEN [index |-> index + 1, block |-> block, open |-> FALSE]
        ELSE IF is_skipped(prop_line)
        THEN [index |-> index + 1, block |-> block, open |-> TRUE]
        ELSE IF parsed.ok
        THEN [index |-> index + 1,
              block |-> [block EXCEPT !.properties =
                            MapPut(@, parsed.val.name, parsed.val.type)],
              open |-> TRUE]
        ELSE [index |-> index + 1, block |-> block, open |-> TRUE]

\* one iteration of the loop of EdgeType::parse_from_lines
edge_line_step(edge_line, index, e) ==
    LET parsed == parse_property_line(edge_line)
        next(e2) == [index |-> index + 1, block |-> e2, open |-> TRUE]
    IN  IF edge_line = CloseLine
        THEN [index |-> index + 1, block |-> e, open |-> FALSE]
        ELSE IF is_skipped(edge_line) THEN next(e)
        ELSE IF StartsWith(edge_line, P_From)
        THEN next([e EXCEPT !.from_node =
                       trim_end_matches(Trim(strip_prefix(edge_line, P_From).val),
                                        <<",">>)])
        ELSE IF StartsWith(edge_line, P_To)
        THEN next([e EXCEPT !.to_node =
                       trim_end_matches(Trim(strip_prefix(edge_line, P_To).val),
                                        <<",">>)])
        ELSE IF edge_line = PropertiesOpen
        THEN next([e EXCEPT !.in_properties_section = TRUE])
        ELSE IF edge_line = CloseLine /\ e.in_properties_section
        THEN next([e EXCEPT !.in_properties_section = FALSE])
        ELSE IF e.in_properties_section /\ parsed.ok
        THEN next([e EXCEPT !.properties =
                       MapPut(e.properties, parsed.val.name, parsed.val.type)])
        ELSE next(e)

\* Ok(Some(Self { .. })) of parse_from_lines, pushed by from_content
push_block(schema, pc, block) ==
    CASE pc = "node" ->
            [schema EXCEPT !.nodes =
                Append(@, [name |-> block.name, node_type |-> block.kind,
                           properties |-> block.properties])]
      [] pc = "vector" ->
            [schema EXCEPT !.vectors =
                Append(@, [name |-> block.name, vector_type |-> block.kind,
                           properties |-> block.properties])]
      [] pc = "edge" ->
            [schema EXCEPT !.edges =
                Append(@, [name |-> block.name, from_node |-> block.from_node,
                           to_node |-> block.to_node,
                           properties |-> block.properties])]

CuIdle ==
    /\ cu_pc = "idle"
    /\ cu_lines = <<>>
    /\ cu_i = 0
    /\ cu_schema = SchemaInfo(<<>>, <<>>, <<>>)
    /\ cu_block = NoBlock
    /\ cu_result = None
    /\ cu_steps = 0

\* one more line in the content
CuWrite(text) ==
    /\ cu_pc = "idle"
    /\ Len(cu_lines) < MaxText
    /\ cu_lines' = Append(cu_lines, text)
    /\ UNCHANGED <<cu_pc, cu_i, cu_schema, cu_block, cu_result, cu_steps>>
    /\ UNCHANGED not_cu_vars

\* SchemaInfo::from_content(content) is called: let mut i = 0
CuFromContent ==
    /\ cu_pc = "idle"
    /\ cu_pc' = "top"
    /\ UNCHANGED <<cu_lines, cu_i, cu_schema, cu_block, cu_result, cu_steps>>
    /\ UNCHANGED not_cu_vars

\* the start of one iteration of the loop of from_content: a line is skipped,
\* or a parse_from_lines call begins and moves the cursor into the block
CuTopLine ==
    /\ cu_pc = "top"
    /\ cu_i < Len(cu_lines)
    /\ LET line == Trim(cu_lines[cu_i + 1])
           enter(pc, name_part, kind, message) ==
               IF name_part.ok
               THEN /\ cu_pc' = pc
                    /\ cu_block' = BlockOf(name_part.val, kind)
                    /\ cu_i' = cu_i + 1
                    /\ UNCHANGED cu_result
               ELSE /\ cu_pc' = "done"
                    /\ cu_result' = Err(message)
                    /\ UNCHANGED <<cu_block, cu_i>>
       IN  IF is_skipped(line)
           THEN /\ cu_i' = cu_i + 1
                /\ UNCHANGED <<cu_pc, cu_block, cu_result>>
           ELSE IF StartsWith(line, P_N)
           THEN enter("node", node_name_part(line), "N", "Invalid node definition")
           ELSE IF StartsWith(line, P_V)
           THEN enter("vector", vector_name_part(line), "V",
                      "Invalid vector definition")
           ELSE IF StartsWith(line, P_E)
           THEN enter("edge", strip_prefix(line, P_E), "E", "Invalid edge definition")
           ELSE /\ cu_i' = cu_i + 1
                /\ UNCHANGED <<cu_pc, cu_block, cu_result>>
    /\ cu_steps' = cu_steps + 1
    /\ UNCHANGED <<cu_lines, cu_schema>>
    /\ UNCHANGED not_cu_vars

\* one iteration of the loop of a parse_from_lines call; at the closing line
\* the call returns and from_content pushes the block
CuBlockLine ==
    /\ cu_pc \in {"node", "vector", "edge"}
    /\ cu_i < Len(cu_lines)
    /\ LET line == Trim(cu_lines[cu_i + 1])
           step == IF cu_pc = "edge"
                   THEN edge_line_step(line, cu_i, cu_block)
                   ELSE property_line_step(line, cu_i, cu_block)
       IN  /\ cu_i' = step.index
           /\ IF step.open
              THEN /\ cu_block' = step.block
                   /\ UNCHANGED <<cu_pc, cu_schema>>
              ELSE /\ cu_pc' = "top"
                   /\ cu_schema' = push_block(cu_schema, cu_pc, step.block)
                   /\ cu_block' = NoBlock
    /\ cu_steps' = cu_steps + 1
    /\ UNCHANGED <<cu_lines, cu_result>>
    /\ UNCHANGED not_cu_vars

\* the lines end inside a block: the loop of parse_from_lines ends, the call
\* returns and from_content pushes the block
CuBlockEnd ==
    /\ cu_pc \in {"node", "vector", "edge"}
    /\ cu_i >= Len(cu_lines)
    /\ cu_pc' = "top"
    /\ cu_schema' = push_block(cu_schema, cu_pc, cu_block)
    /\ cu_block' = NoBlock
    /\ cu_steps' = cu_steps + 1
    /\ UNCHANGED <<cu_lines, cu_i, cu_result>>
    /\ UNCHANGED not_cu_vars

\* the loop of from_content ends: Ok(Self { nodes, edges, vectors })
CuReturn ==
    /\ cu_pc = "top"
    /\ cu_i >= Len(cu_lines)
    /\ cu_pc' = "done"
    /\ cu_result' = Ok(cu_schema)
    /\ cu_steps' = cu_steps + 1
    /\ UNCHANGED <<cu_lines, cu_i, cu_schema, cu_block>>
    /\ UNCHANGED not_cu_vars

CuNext ==
    \/ \E text \in TextLines : CuWrite(text)
    \/ CuFromContent
    \/ CuTopLine
    \/ CuBlockLine
    \/ CuBlockEnd
    \/ CuReturn

(***************************************************************************)
(* web/handlers.rs: the schema, endpoints and inspection handlers          *)
(***************************************************************************)
DataSources == {"LocalFile", "LocalIntrospect", "Cloud"}

HelixUrl == <<"h", "t", "t", "p", ":", "/", "/", "l", "o", "c", "a", "l", "h", "o", "s", "t", ":", "6", "9", "6", "9">>

SCHEMA_FILE_PATH == <<"h", "e", "l", "i", "x", "d", "b", "-", "c", "f", "g", "/", "s", "c", "h", "e", "m", "a", ".", "h", "x">>

QUERIES_FILE_PATH == <<"h", "e", "l", "i", "x", "d", "b", "-", "c", "f", "g", "/", "q", "u", "e", "r", "i", "e", "s", ".", "h", "x">>

MAX_LIMIT == <<3, 0, 0>>

K_nodes == <<"n", "o", "d", "e", "s">>

K_edges == <<"e", "d", "g", "e", "s">>

K_vectors == <<"v", "e", "c", "t", "o", "r", "s">>

K_data == <<"d", "a", "t", "a">>

K_properties == <<"p", "r", "o", "p", "e", "r", "t", "i", "e", "s">>

RequestFailed == <<"R", "e", "q", "u", "e", "s", "t", " ", "f", "a", "i", "l", "e", "d", ":", " ">>

IntrospectPath == <<"/", "i", "n", "t", "r", "o", "s", "p", "e", "c", "t">>

\* no call made yet
NoCall == [kind |-> "none"]

\* fs::read_to_string(path)
ReadFile(path) == [kind |-> "read", path |-> path]

\* client.get(url), with the x-api-key header if there is a key
HttpGet(url, api_key) == [kind |-> "get", url |-> url, api_key |-> api_key]

\* the call fetch_cloud_introspect makes
introspect_call(helix_url, api_key) == HttpGet(helix_url \o IntrospectPath, api_key)

\* pub fn validate_limit(limit: Option<u32>) -> Option<u32>
validate_limit(limit) ==
    IF limit.ok /\ MagLeq(limit.val, MAX_LIMIT) THEN limit ELSE None

\* if !query_params.is_empty() { url.push('?'); url.push_str(&query_params.join("&")); }
with_query(url, query_params) ==
    IF query_params = <<>> THEN url
    ELSE url \o <<"?">> \o Join(query_params, <<"&">>)

\* let api_key = if matches!(app_state.data_source, DataSource::Cloud) { .. } else { None }
inspection_api_key(data_source, api_key) ==
    IF data_source = "Cloud" THEN api_key ELSE None

\* the call each handler awaits
handler_call(handler, data_source, api_key, params) ==
    LET limit == validate_limit(params.limit)
        limit_part == IF limit.ok THEN <<<<"l", "i", "m", "i", "t", "=">> \o TextOf(limit.val)>> ELSE <<>>
        label_part == IF params.text.ok THEN <<<<"n", "o", "d", "e", "_", "l", "a", "b", "e", "l", "=">> \o params.text.val>> ELSE <<>>
        key == inspection_api_key(data_source, api_key)
    IN  CASE handler = "schema" ->
                IF data_source = "LocalFile" THEN ReadFile(SCHEMA_FILE_PATH)
                ELSE IF data_source = "LocalIntrospect"
                THEN introspect_call(HelixUrl, None)
                ELSE introspect_call(HelixUrl, api_key)
          [] handler = "endpoints" ->
                IF data_source = "LocalFile" THEN ReadFile(QUERIES_FILE_PATH)
                ELSE introspect_call(HelixUrl, api_key)
          [] handler = "nodes-edges" ->
                HttpGet(with_query(HelixUrl \o <<"/", "n", "o", "d", "e", "s", "-", "e", "d", "g", "e", "s">>, limit_part \o label_part),
                        key)
          [] handler = "node-details" ->
                HttpGet(HelixUrl \o <<"/", "n", "o", "d", "e", "-", "d", "e", "t", "a", "i", "l", "s", "?", "i", "d", "=">> \o params.text.val, key)
          [] handler = "nodes-by-label" ->
                HttpGet(with_query(HelixUrl \o <<"/", "n", "o", "d", "e", "s", "-", "b", "y", "-", "l", "a", "b", "e", "l">>,
                                   <<<<"l", "a", "b", "e", "l", "=">> \o params.text.val>> \o limit_part),
                        key)
          [] handler = "node-connections" ->
                HttpGet(HelixUrl \o <<"/", "n", "o", "d", "e", "-", "c", "o", "n", "n", "e", "c", "t", "i", "o", "n", "s", "?", "n", "o", "d", "e", "_", "i", "d", "=">> \o params.text.val, key)

\* a HashMap<String, String> serialized: an object with the entries in the
\* order the map iterates, hash_order ranking the keys
RECURSIVE properties_to_json(_, _)
properties_to_json(properties, hash_order) ==
    IF hash_order = <<>> THEN <<>>
    ELSE (IF Head(hash_order) \in DOMAIN properties
          THEN <<Entry(Head(hash_order), JString(properties[Head(hash_order)]))>>
          ELSE <<>>) \o properties_to_json(properties, Tail(hash_order))

\* #[derive(Serialize)] of NodeType, EdgeType and VectorType
node_to_json(node, hash_order) ==
    JObject(<<Entry(K_name, JString(node.name)),
              Entry(<<"n", "o", "d", "e", "_", "t", "y", "p", "e">>, JString(node.node_type)),
              Entry(K_properties, JObject(properties_to_json(node.properties, hash_order)))>>)

edge_to_json(edge, hash_order) ==
    JObject(<<Entry(K_name, JString(edge.name)),
              Entry(<<"f", "r", "o", "m", "_", "n", "o", "d", "e">>, JString(edge.from_node)),
              Entry(<<"t", "o", "_", "n", "o", "d", "e">>, JString(edge.to_node)),
              Entry(K_properties, JObject(properties_to_json(edge.properties, hash_order)))>>)

vector_to_json(vector, hash_order) ==
    JObject(<<Entry(K_name, JString(vector.name)),
              Entry(<<"v", "e", "c", "t", "o", "r", "_", "t", "y", "p", "e">>, JString(vector.vector_type)),
              Entry(K_properties, JObject(properties_to_json(vector.properties, hash_order)))>>)

\* #[derive(Serialize)] of SchemaInfo
schema_to_json(schema, hash_order) ==
    JObject(<<Entry(K_nodes, JArray([i \in 1..Len(schema.nodes) |->
                                        node_to_json(schema.nodes[i], hash_order)])),
              Entry(K_edges, JArray([i \in 1..Len(schema.edges) |->
                                        edge_to_json(schema.edges[i], hash_order)])),
              Entry(K_vectors, JArray([i \in 1..Len(schema.vectors) |->
                                        vector_to_json(schema.vectors[i], hash_order)]))>>)

\* #[derive(Serialize)] of QueryParameter and ApiEndpointInfo
parameter_to_json(parameter) ==
    JObject(<<Entry(K_name, JString(parameter.name)),
              Entry(<<"p", "a", "r", "a", "m", "_", "t", "y", "p", "e">>, JString(parameter.param_type))>>)

endpoint_to_json(endpoint) ==
    JObject(<<Entry(<<"p", "a", "t", "h">>, JString(endpoint.path)),
              Entry(<<"m", "e", "t", "h", "o", "d">>, JString(endpoint.method)),
              Entry(<<"q", "u", "e", "r", "y", "_", "n", "a", "m", "e">>, JString(endpoint.query_name)),
              Entry(<<"p", "a", "r", "a", "m", "e", "t", "e", "r", "s">>,
                    JArray([i \in 1..Len(endpoint.parameters) |->
                               parameter_to_json(endpoint.parameters[i])]))>>)

endpoints_to_json(endpoints) ==
    JArray([i \in 1..Len(endpoints) |-> endpoint_to_json(endpoints[i])])

\* ApiEndpointInfo::new
ApiEndpointInfo(path, method, query_name, parameters) ==
    [path |-> path, method |-> method, query_name |-> query_name,
     parameters |-> parameters]

\* ApiEndpointInfo::from_queries_file, with read the outcome of fs::read_to_string
from_queries_file(read) ==
    LET definitions == query_from_file(read)
    IN  IF definitions.ok
        THEN Ok([i \in 1..Len(definitions.val) |->
                    ApiEndpointInfo(definitions.val[i].endpoint_path,
                                    definitions.val[i].http_method,
                                    definitions.val[i].name,
                                    definitions.val[i].parameters)])
        ELSE definitions

\* pub fn determine_http_method(query_name: &str) -> &'static str
determine_http_method(query_name) ==
    IF \/ StartsWith(query_name, <<"c", "r", "e", "a", "t", "e">>)
       \/ StartsWith(query_name, <<"a", "d", "d">>)
       \/ StartsWith(query_name, <<"a", "s", "s", "i", "g", "n">>)
    THEN "POST"
    ELSE IF StartsWith(query_name, <<"u", "p", "d", "a", "t", "e">>) THEN "PUT"
    ELSE IF StartsWith(query_name, <<"d", "e", "l", "e", "t", "e">>) \/ StartsWith(query_name, <<"r", "e", "m", "o", "v", "e">>)
    THEN "DELETE"
    ELSE "GET"

\* pub fn map_query_to_endpoint(query: IntrospectQuery) -> ApiEndpointInfo
map_query_to_endpoint(query) ==
    LET params == query.parameters.entries
        parameters ==
            IF query.parameters.tag = "Object"
            THEN [i \in 1..Len(params) |->
                     QueryParameter(params[i].key,
                                    IF params[i].value.tag = "String"
                                    THEN params[i].value.s ELSE T_String)]
            ELSE <<>>
    IN  ApiEndpointInfo(ApiQuery \o query.name, determine_http_method(query.name),
                        query.name, parameters)

\* CloudIntrospectData { schema, queries }
CloudIntrospectData(schema, queries) == [schema |-> schema, queries |-> queries]

\* get_schema_handler once its call has returned: the SchemaInfo it answers
get_schema_handler(data_source, outcome) ==
    IF data_source = "LocalFile"
    THEN IF from_file(outcome).ok THEN from_file(outcome).val
         ELSE SchemaInfo(<<>>, <<>>, <<>>)
    ELSE IF outcome.ok THEN outcome.val.schema
         ELSE SchemaInfo(<<>>, <<>>, <<>>)

\* get_endpoints_handler once its call has returned: the Vec it answers
get_endpoints_handler(data_source, outcome) ==
    IF data_source = "LocalFile"
    THEN IF from_queries_file(outcome).ok THEN from_queries_file(outcome).val
         ELSE <<>>
    ELSE IF outcome.ok
         THEN [i \in 1..Len(outcome.val.queries) |->
                  map_query_to_endpoint(outcome.val.queries[i])]
         ELSE <<>>

EmptyValues == JObject(<<Entry(<<"v", "a", "l", "u", "e", "s">>, JArray(<<>>))>>)

\* pub fn create_default_error_data() -> serde_json::Value
create_default_error_data ==
    JObject(<<Entry(K_nodes, JArray(<<>>)), Entry(K_edges, JArray(<<>>)),
              Entry(K_vectors, JArray(<<>>))>>)

\* pub fn create_node_connections_error_data() -> serde_json::Value
create_node_connections_error_data ==
    JObject(<<Entry(<<"c", "o", "n", "n", "e", "c", "t", "e", "d", "_", "n", "o", "d", "e", "s">>, EmptyValues),
              Entry(<<"i", "n", "c", "o", "m", "i", "n", "g", "_", "e", "d", "g", "e", "s">>, EmptyValues),
              Entry(<<"o", "u", "t", "g", "o", "i", "n", "g", "_", "e", "d", "g", "e", "s">>, EmptyValues)>>)

\* The error answers without their message (mutation of inspection_handler)
inspection_handler_silent(handler, outcome) ==
    IF outcome.ok THEN outcome.val ELSE create_default_error_data

\* The payload sent through sort_json_object (mutation of inspection_handler)
inspection_handler_sorting(handler, outcome) ==
    IF outcome.ok THEN sort_json_object(outcome.val)
    ELSE JObject(<<Entry(K_error, JString(RequestFailed \o outcome.err))>>)

\* the four inspection handlers once make_http_request_with_auth has returned
inspection_handler(handler, outcome) ==
    LET error == Entry(K_error, JString(RequestFailed \o outcome.err))
    IN  IF outcome.ok THEN outcome.val
        ELSE CASE handler \in {"nodes-edges", "nodes-by-label"} ->
                    JObject(<<error, Entry(K_data, create_default_error_data)>>)
               [] handler = "node-details" ->
                    JObject(<<error, Entry(K_data, JObject(<<>>))>>)
               [] handler = "node-connections" ->
                    JObject(<<error>> \o create_node_connections_error_data.entries)

\* the names of the properties of a SchemaInfo
PropertyNames(schema) ==
    UNION ({DOMAIN schema.nodes[i].properties : i \in 1..Len(schema.nodes)}
           \cup {DOMAIN schema.edges[i].properties : i \in 1..Len(schema.edges)}
           \cup {DOMAIN schema.vectors[i].properties : i \in 1..Len(schema.vectors)})

(***************************************************************************)
(* Requests to the schema, endpoints and inspection handlers, with the     *)
(* outcome of the one call each awaits                                     *)
(***************************************************************************)
Handlers ==
    {"schema", "endpoints", "nodes-edges", "node-details", "nodes-by-label",
     "node-connections"}

InspectionHandlers == Handlers \ {"schema", "endpoints"}

ApiKeys == {None, Ok(<<"s", "e", "c", "r", "e", "t">>)}

RequestLimits == {None, Ok(<<5, 0>>), Ok(<<3, 0, 0>>), Ok(<<3, 0, 1>>)}

NoParams == [limit |-> None, text |-> None]

L_User == <<"U", "s", "e", "r">>

\* the query strings that deserialize into the handler's Query type
RequestParams(handler) ==
    CASE handler \in {"schema", "endpoints"} -> {NoParams}
      [] handler = "nodes-edges" ->
            {[limit |-> l, text |-> t] : l \in RequestLimits, t \in {None, Ok(L_User)}}
      [] handler = "nodes-by-label" ->
            {[limit |-> l, text |-> Ok(L_User)] : l \in RequestLimits}
      [] handler \in {"node-details", "node-connections"} ->
            {[limit |-> None, text |-> Ok(<<"n", "1">>)]}

NoSuchFile == <<"N", "o", " ", "s", "u", "c", "h", " ", "f", "i", "l", "e", " ", "o", "r", " ", "d", "i", "r", "e", "c", "t", "o", "r", "y", " ", "(", "o", "s", " ", "e", "r", "r", "o", "r", " ", "2", ")">>

SchemaReads ==
    {Err(NoSuchFile), Ok(<<>>),
     Ok(<<<<"N", ":", ":", "U", "s", "e", "r", " ", "{">>, <<" ", " ", " ", " ", "n", "a", "m", "e", ":", " ", "S", "t", "r", "i", "n", "g", ",">>, <<" ", " ", " ", " ", "a", "g", "e", ":", " ", "I", "3", "2", ",">>, <<"}">>>>),
     Ok(<<<<"E", ":", ":", "F", "o", "l", "l", "o", "w", "s", " ", "{">>, <<" ", " ", " ", " ", "F", "r", "o", "m", ":", " ", "U", "s", "e", "r", ",">>, <<" ", " ", " ", " ", "T", "o", ":", " ", "U", "s", "e", "r", ",">>, <<"}">>, <<"V", ":", ":", "D", "o", "c", " ", "{">>>>)}

QueryReads ==
    {Err(NoSuchFile), Ok(<<>>),
     Ok(<<<<"/", "/", " ", "q", "u", "e", "r", "i", "e", "s">>, <<"Q", "U", "E", "R", "Y", " ", "c", "r", "e", "a", "t", "e", "U", "s", "e", "r", " ", "(", "n", "a", "m", "e", ":", " ", "S", "t", "r", "i", "n", "g", ",", " ", "a", "g", "e", ":", " ", "I", "3", "2", ")", " ", "=", ">">>,
          <<"Q", "U", "E", "R", "Y", " ", "g", "e", "t", "U", "s", "e", "r", " ", "(", "u", "s", "e", "r", "_", "i", "d", ":", " ", "I", "D", ")", " ", "=", ">">>>>)}

ServerError == <<"F", "a", "i", "l", "e", "d", " ", "t", "o", " ", "f", "e", "t", "c", "h", " ", "i", "n", "t", "r", "o", "s", "p", "e", "c", "t", " ", "d", "a", "t", "a", ":", " ", "5", "0", "0", " ", "I", "n", "t", "e", "r", "n", "a", "l", " ", "S", "e", "r", "v", "e", "r", " ", "E", "r", "r", "o", "r">>

IntrospectReplies ==
    {Err(ConnectionRefused), Err(ServerError)}
    \cup {Ok(CloudIntrospectData(from_content(read.val).val, fetch.val)) :
             read \in {r \in SchemaReads : r.ok},
             fetch \in {f \in IntrospectOutcomes : f.ok}}

NotFound == <<"H", "T", "T", "P", " ", "e", "r", "r", "o", "r", ":", " ", "4", "0", "4", " ", "N", "o", "t", " ", "F", "o", "u", "n", "d">>

InspectionReplies ==
    {Err(ConnectionRefused), Err(NotFound),
     Ok(JNull),
     Ok(JObject(<<Entry(K_edges, JArray(<<>>)), Entry(K_nodes, JArray(<<>>))>>)),
     Ok(JObject(<<Entry(K_nodes,
                        JArray(<<JObject(<<Entry(K_name, JString(V_abc)),
                                           Entry(K_id, JSeven)>>)>>)),
                  Entry(K_edges, JArray(<<>>))>>)),
     Ok(JObject(<<Entry(K_error, JNull)>>))}

\* what the awaited call can return
Replies(call) ==
    IF call.kind = "none" THEN {}
    ELSE IF call.kind = "read"
    THEN IF call.path = SCHEMA_FILE_PATH THEN SchemaReads ELSE QueryReads
    ELSE IF EndsWith(call.url, IntrospectPath) THEN IntrospectReplies
    ELSE InspectionReplies

HdIdle ==
    /\ hd_pc = "idle"
    /\ hd_handler = ""
    /\ hd_source = ""
    /\ hd_call = NoCall
    /\ hd_outcome = None
    /\ hd_response = JNull

\* a request arrives at a handler, which makes its call
HdRequest(handler, data_source, api_key, params) ==
    /\ hd_pc = "idle"
    /\ hd_pc' = "awaiting"
    /\ hd_handler' = handler
    /\ hd_source' = data_source
    /\ hd_call' = handler_call(handler, data_source, api_key, params)
    /\ UNCHANGED <<hd_outcome, hd_response>>
    /\ UNCHANGED not_hd_vars

\* get_schema_handler answers
HdSchema(outcome) ==
    /\ hd_pc = "awaiting"
    /\ hd_handler = "schema"
    /\ \E hash_order \in Orders(PropertyNames(get_schema_handler(hd_source, outcome))) :
           hd_response' = schema_to_json(get_schema_handler(hd_source, outcome),
                                         hash_order)
    /\ hd_pc' = "done"
    /\ hd_outcome' = outcome
    /\ UNCHANGED <<hd_handler, hd_source, hd_call>>
    /\ UNCHANGED not_hd_vars

\* get_endpoints_handler answers
HdEndpoints(outcome) ==
    /\ hd_pc = "awaiting"
    /\ hd_handler = "endpoints"
    /\ hd_response' = endpoints_to_json(get_endpoints_handler(hd_source, outcome))
    /\ hd_pc' = "done"
    /\ hd_outcome' = outcome
    /\ UNCHANGED <<hd_handler, hd_source, hd_call>>
    /\ UNCHANGED not_hd_vars

\* one of the four inspection handlers answers
HdInspection(outcome) ==
    /\ hd_pc = "awaiting"
    /\ hd_handler \in InspectionHandlers
    /\ hd_response' = inspection_handler(hd_handler, outcome)
    /\ hd_pc' = "done"
    /\ hd_outcome' = outcome
    /\ UNCHANGED <<hd_handler, hd_source, hd_call>>
    /\ UNCHANGED not_hd_vars

HdNext ==
    \/ \E handler \in Handlers, data_source \in DataSources, api_key \in ApiKeys :
           \E params \in RequestParams(handler) :
               HdRequest(handler, data_source, api_key, params)
    \/ \E outcome \in Replies(hd_call) : HdSchema(outcome)
    \/ \E outcome \in Replies(hd_call) : HdEndpoints(outcome)
    \/ \E outcome \in Replies(hd_call) : HdInspection(outcome)

(***************************************************************************)
(* web/handlers.rs: execute_query_handler run for several requests at      *)
(* once.  Each request is a future of its own, with its own parameters and *)
(* locals; the requests share the immutable AppState and the process's     *)
(* standard error, and interleave at the two awaits of the handler.        *)
(***************************************************************************)
MaxRequests == 2

Requests == 1..MaxRequests

CcQueries ==
    {MapPut(EmptyMap, K_id, V_50), MapPut(EmptyMap, K_limit, V_50),
     MapPut(EmptyMap, K_limit, V_abc)}

CcBodies == {JObject(<<Entry(K_id, JSeven)>>)}

CcFetches ==
    {Err(ConnectionRefused), Ok(<<>>),
     Ok(<<IntrospectQuery(Q_getUser, JObject(<<Entry(K_limit, JString(T_U32))>>))>>)}

CcReplies ==
    {Err(ConnectionRefused),
     Ok(JObject(<<Entry(K_name, JString(V_abc)), Entry(K_id, JSeven)>>))}

\* eprintln!("Warning: Could not fetch introspect data for parameter types: {e}")
fetch_warning(fetch) ==
    IF fetch.ok THEN <<>>
    ELSE <<<<"W", "a", "r", "n", "i", "n", "g", ":", " ", "C", "o", "u", "l", "d", " ", "n", "o", "t", " ", "f", "e", "t", "c", "h", " ", "i", "n", "t", "r", "o", "s", "p", "e", "c", "t", " ", "d", "a", "t", "a", " ", "f", "o", "r", " ", "p", "a", "r", "a", "m", "e", "t", "e", "r", " ", "t", "y", "p", "e", "s", ":", " ">> \o fetch.err>>

\* eprintln!("Error executing query '{query_name}': {e}")
query_error_line(reply, query_name) ==
    IF reply.ok THEN <<>>
    ELSE <<<<"E", "r", "r", "o", "r", " ", "e", "x", "e", "c", "u", "t", "i", "n", "g", " ", "q", "u", "e", "r", "y", " ", "'">> \o query_name \o <<"'", ":", " ">> \o reply.err>>

CcIdle ==
    /\ cc_pc = [r \in Requests |-> "idle"]
    /\ cc_name = [r \in Requests |-> <<>>]
    /\ cc_query = [r \in Requests |-> EmptyMap]
    /\ cc_body = [r \in Requests |-> NoBody]
    /\ cc_fetch = [r \in Requests |-> None]
    /\ cc_sent = [r \in Requests |-> JNull]
    /\ cc_reply = [r \in Requests |-> None]
    /\ cc_response = [r \in Requests |-> JNull]
    /\ cc_stderr = <<>>

\* request r arrives; its handler seeds params from its body and awaits
\* get_query_param_types
CcRequest(r, query_name, query_params, body) ==
    /\ cc_pc[r] = "idle"
    /\ cc_pc' = [cc_pc EXCEPT ![r] = "fetching"]
    /\ cc_name' = [cc_name EXCEPT ![r] = query_name]
    /\ cc_query' = [cc_query EXCEPT ![r] = query_params]
    /\ cc_body' = [cc_body EXCEPT ![r] = body]
    /\ UNCHANGED <<cc_fetch, cc_sent, cc_reply, cc_response, cc_stderr>>
    /\ UNCHANGED not_cc_vars

\* A handler that takes the fetch for failed once any request has logged a
\* failure (mutation of CcIntrospect)
CcIntrospect_sticky(r, fetch, iter_order) ==
    LET seen == IF cc_stderr # <<>> THEN Err(ConnectionRefused) ELSE fetch
    IN  /\ cc_pc[r] = "fetching"
        /\ iter_order \in Orders(DOMAIN cc_query[r])
        /\ cc_pc' = [cc_pc EXCEPT ![r] = "querying"]
        /\ cc_fetch' = [cc_fetch EXCEPT ![r] = fetch]
        /\ cc_sent' = [cc_sent EXCEPT ![r] =
               JObject(handler_insert_params(handler_seed_params(cc_body[r]),
                           cc_query[r], get_query_param_types(seen, cc_name[r]),
                           iter_order))]
        /\ cc_stderr' = cc_stderr \o fetch_warning(fetch)
        /\ UNCHANGED <<cc_name, cc_query, cc_body, cc_reply, cc_response>>
        /\ UNCHANGED not_cc_vars

\* fetch_cloud_introspect returns to request r; its handler logs a failure,
\* converts its query-string parameters and awaits helix_db.query
CcIntrospect(r, fetch, iter_order) ==
    /\ cc_pc[r] = "fetching"
    /\ iter_order \in Orders(DOMAIN cc_query[r])
    /\ cc_pc' = [cc_pc EXCEPT ![r] = "querying"]
    /\ cc_fetch' = [cc_fetch EXCEPT ![r] = fetch]
    /\ cc_sent' = [cc_sent EXCEPT ![r] =
           JObject(handler_insert_params(handler_seed_params(cc_body[r]),
                       cc_query[r], get_query_param_types(fetch, cc_name[r]),
                       iter_order))]
    /\ cc_stderr' = cc_stderr \o fetch_warning(fetch)
    /\ UNCHANGED <<cc_name, cc_query, cc_body, cc_reply, cc_response>>
    /\ UNCHANGED not_cc_vars

\* helix_db.query returns to request r; its handler logs a failure and answers
CcQueryReply(r, reply) ==
    /\ cc_pc[r] = "querying"
    /\ cc_pc' = [cc_pc EXCEPT ![r] = "done"]
    /\ cc_reply' = [cc_reply EXCEPT ![r] = reply]
    /\ cc_response' = [cc_response EXCEPT ![r] = query_response(reply, cc_name[r])]
    /\ cc_stderr' = cc_stderr \o query_error_line(reply, cc_name[r])
    /\ UNCHANGED <<cc_name, cc_query, cc_body, cc_fetch, cc_sent>>
    /\ UNCHANGED not_cc_vars

CcNext ==
    \/ \E r \in Requests, query_name \in ExQueryNames, query_params \in CcQueries,
          body \in CcBodies : CcRequest(r, query_name, query_params, body)
    \/ \E r \in Requests, fetch \in CcFetches :
           \E iter_order \in Orders(DOMAIN cc_query[r]) : CcIntrospect(r, fetch, iter_order)
    \/ \E r \in Requests, reply \in CcReplies : CcQueryReply(r, reply)

(***************************************************************************)
(* Specifications: each starts with every component idle and runs one      *)
(* component                                                               *)
(***************************************************************************)
Idle ==
    /\ TyIdle /\ CoIdle /\ SoIdle /\ MeIdle /\ ArIdle /\ ScIdle /\ QpIdle /\ ExIdle
    /\ CuIdle /\ HdIdle /\ CcIdle

SpecType == Idle /\ [][TyNext]_vars

SpecCoerce == Idle /\ [][CoNext]_vars

SpecSort == Idle /\ [][SoNext]_vars

SpecMerge == Idle /\ [][MeNext]_vars

SpecArray == Idle /\ [][ArNext]_vars

SpecSchema == Idle /\ [][ScNext]_vars

SpecQuery == Idle /\ [][QpNext]_vars

SpecExecute == Idle /\ [][ExNext]_vars

SpecCursor == Idle /\ [][CuNext]_vars

SpecConcurrent == Idle /\ [][CcNext]_vars

\* one request at a time, to any of the seven handlers
HandlersNext ==
    \/ HdIdle /\ ExNext
    \/ ExIdle /\ HdNext

SpecHandlers == Idle /\ [][HandlersNext]_vars

(***************************************************************************)
(* Claims about the type grammar (SpecType)                                *)
(***************************************************************************)
Contains(s, c) == \E i \in 1..Len(s) : s[i] = c

\* C6: to_string(parse(t)) = t for each of the eight scalar names; for every
\* HelixType T reached as a parse result, parse(to_string(T)) = Ok(T); and
\* to_string spells an array as "[" inner "]", never in the legacy form.
C6_RoundTrip ==
    /\ (ty_pc = "parsed" /\ ty_text \in ScalarTexts) => ty_parsed.ok
    /\ (ty_pc \in {"shown", "reparsed"} /\ ty_text \in ScalarTexts)
           => ty_shown = ty_text
    /\ ty_pc = "reparsed" => ty_reparsed = Ok(ty_parsed.val)
    /\ (ty_pc \in {"shown", "reparsed"} /\ ty_parsed.val.tag = "Array")
           => /\ StartsWith(ty_shown, <<"[">>)
              /\ EndsWith(ty_shown, <<"]">>)
              /\ ~Contains(ty_shown, "(")
              /\ ~Contains(ty_shown, ")")

\* a nested array, written with a legacy wrapper, was parsed, shown in the
\* bracket form and parsed again
C6_Witness ==
    /\ ty_pc = "reparsed"
    /\ ty_parsed.val = Array(Array(Scalar("U128")))
    /\ Contains(ty_text, "(")
    /\ ty_shown # ty_text

\* C7: when from_str accepts T, "[T]" and "Array(T)" both parse to
\* Array(parse(T)); when it rejects T, both are rejected.
C7_AliasEquivalence ==
    ty_pc = "aliased" =>
        IF ty_parsed.ok
        THEN /\ ty_bracket = Ok(Array(ty_parsed.val))
             /\ ty_legacy = Ok(Array(ty_parsed.val))
        ELSE ~ty_bracket.ok /\ ~ty_legacy.ok

\* both spellings of an array of a text that itself mixes the two spellings
C7_Witness ==
    /\ ty_pc = "aliased"
    /\ ty_text = <<"[">> \o T_ArrayOpen \o T_F64 \o <<")", "]">>
    /\ ty_legacy = Ok(Array(Array(Array(Scalar("F64")))))

\* a rejected inner text: both spellings fail
C7_WitnessRejected ==
    /\ ty_pc = "aliased"
    /\ ~ty_parsed.ok
    /\ ~ty_legacy.ok

\* The texts of the type grammar: a scalar name, "[T]" or "Array(T)".
RECURSIVE InGrammar(_)
InGrammar(s) ==
    \/ s \in ScalarTexts
    \/ /\ Len(s) >= 2
       /\ s[1] = "["
       /\ s[Len(s)] = "]"
       /\ InGrammar(SubSeq(s, 2, Len(s) - 1))
    \/ /\ Len(s) >= 7
       /\ SubSeq(s, 1, 6) = T_ArrayOpen
       /\ s[Len(s)] = ")"
       /\ InGrammar(SubSeq(s, 7, Len(s) - 1))

\* What is left of a text once every enclosing "[..]" or "Array(..)" is removed
RECURSIVE Unwrapped(_)
Unwrapped(s) ==
    IF Len(s) >= 2 /\ s[1] = "[" /\ s[Len(s)] = "]"
    THEN Unwrapped(SubSeq(s, 2, Len(s) - 1))
    ELSE IF Len(s) >= 7 /\ SubSeq(s, 1, 6) = T_ArrayOpen /\ s[Len(s)] = ")"
    THEN Unwrapped(SubSeq(s, 7, Len(s) - 1))
    ELSE s

\* C8 as stated: every text outside the grammar is rejected with a ParseType
\* error that reports the text passed to from_str.
C8_RejectsReportingInput ==
    (ty_pc = "parsed" /\ ~InGrammar(ty_text))
        => ty_parsed = Err(ParseType(UnknownTypePrefix \o ty_text))

\* C8 amended: every text outside the grammar is rejected with a ParseType
\* error (texts of the grammar are accepted); the error reports the text left
\* after removing the enclosing array wrappers, which is the text passed only
\* when that text has no such wrapper.
C8_RejectsReportingInnermost ==
    ty_pc = "parsed" =>
        IF InGrammar(ty_text)
        THEN ty_parsed.ok
        ELSE ty_parsed = Err(ParseType(UnknownTypePrefix \o Unwrapped(ty_text)))

\* a lower-case scalar name inside a well-formed array wrapper was rejected
C8_Witness ==
    /\ ty_pc = "parsed"
    /\ ty_text = <<"[", "i", "3", "2", "]">>
    /\ ~ty_parsed.ok
    /\ ty_parsed.err.kind = "ParseType"

(***************************************************************************)
(* Claims about the coercion (SpecCoerce)                                  *)
(***************************************************************************)
\* 2 * mag: a digit receives a carry exactly when the digit to its right is
\* 5 or more
Doubled(mag) ==
    (IF mag[1] >= 5 THEN <<1>> ELSE <<>>)
        \o SubSeq([i \in 1..Len(mag) |->
                      (2 * mag[i] + (IF i < Len(mag) /\ mag[i + 1] >= 5 THEN 1 ELSE 0)) % 10],
                  1, Len(mag))

\* mag * 2^k
RECURSIVE Shl(_, _)
Shl(mag, k) == IF k = 0 THEN mag ELSE Doubled(Shl(mag, k - 1))

IntegerTags == {"I32", "I64", "U32", "U64"}

SignedTags == {"I32", "I64"}

Bits(tag) == IF tag \in {"I32", "U32"} THEN 32 ELSE 64

TwoTo16 == Shl(<<1>>, 16)
TwoTo31 == Shl(TwoTo16, 15)
TwoTo32 == Doubled(TwoTo31)
TwoTo48 == Shl(TwoTo32, 16)
TwoTo63 == Shl(TwoTo48, 15)
TwoTo64 == Doubled(TwoTo63)

\* n lies in the range of the fixed-width type: -2^(w-1) <= n < 2^(w-1) for a
\* signed type, 0 <= n < 2^w for an unsigned one
InRange(n, tag) ==
    LET half == IF Bits(tag) = 32 THEN TwoTo31 ELSE TwoTo63
        full == IF Bits(tag) = 32 THEN TwoTo32 ELSE TwoTo64
    IN  IF tag \in SignedTags
        THEN IF n.neg THEN MagLeq(n.mag, half) ELSE MagLess(n.mag, half)
        ELSE ~n.neg /\ MagLess(n.mag, full)

Unsigned(v) == IF v # <<>> /\ v[1] \in {"+", "-"} THEN Tail(v) ELSE v

\* v is a decimal numeral: an optional sign and one or more digits
IsDecimal(v) == Unsigned(v) # <<>> /\ AllDigits(Unsigned(v))

\* the integer a decimal numeral denotes
IntegerOf(v) == SignedInt(v[1] = "-", Magnitude(Unsigned(v)))

IsConversionError(r) == ~r.ok /\ r.err.kind = "Conversion"

\* C9 as stated: for the four integer types, to_json returns the number n
\* exactly when the text is a decimal numeral of an integer n in the range of
\* the type, and a Conversion error for every other text.
C9_IntegerExactlyInRange ==
    (co_pc = "done" /\ co_type.tag \in IntegerTags) =>
        IF IsDecimal(co_value) /\ InRange(IntegerOf(co_value), co_type.tag)
        THEN co_result = Ok(JInt(IntegerOf(co_value)))
        ELSE IsConversionError(co_result)

\* the sign the type's parser accepts: "+" for every type, "-" for the signed
\* types only
SignAccepted(v, tag) == v # <<>> /\ v[1] = "-" => tag \in SignedTags

\* C9 amended: to_json returns the number n exactly when the text is an
\* optional sign ("+", or "-" for I32 and I64 only) followed by one or more
\* decimal digits denoting an integer n in the range of the type; every other
\* text, among them the values one past either bound and every text that
\* starts with "-" for U32 and U64 ("-0" included), is a Conversion error.
C9_IntegerInRangeSigned ==
    (co_pc = "done" /\ co_type.tag \in IntegerTags) =>
        IF /\ IsDecimal(co_value)
           /\ SignAccepted(co_value, co_type.tag)
           /\ InRange(IntegerOf(co_value), co_type.tag)
        THEN co_result = Ok(JInt(IntegerOf(co_value)))
        ELSE IsConversionError(co_result)

\* the minimum of the signed 64-bit range was coerced to a number
C9_Witness ==
    /\ co_pc = "done"
    /\ co_type = Scalar("I64")
    /\ co_value = <<"-">> \o TextOf(TwoTo63)
    /\ co_result.ok

\* one past the maximum of the unsigned 32-bit range was refused
C9_WitnessPastBound ==
    /\ co_pc = "done"
    /\ co_type = Scalar("U32")
    /\ co_value = TextOf(TwoTo32)
    /\ ~co_result.ok

IsNumber(j) == j.tag = "Number"

\* the JSON value a successful coercion to type t may return
WellTyped(j, t) ==
    CASE t.tag \in {"String", "ID"} -> j.tag = "String"
      [] t.tag \in IntegerTags \cup {"U128", "F64"} -> IsNumber(j)
      [] t.tag = "Array" ->
            /\ t.inner.tag = "F64"
            /\ j.tag = "Array"
            /\ \A i \in 1..Len(j.items) : IsNumber(j.items[i])

\* C10: a coercion that fails returns a Conversion error, never a ParseType
\* error, whose value is the input text and whose expected_type is the
\* requested type (the whole Array type for an array); a coercion that
\* succeeds returns a value of the requested type.
C10_FailureIsConversion ==
    co_pc = "done" =>
        IF co_result.ok
        THEN WellTyped(co_result.val, co_type)
        ELSE /\ co_result.err.kind = "Conversion"
             /\ co_result.err.value = co_value
             /\ co_result.err.expected_type = co_type

\* a malformed list was refused for the type Array(F64)
C10_Witness ==
    /\ co_pc = "done"
    /\ co_type = Array(Scalar("F64"))
    /\ co_value = <<"1", ".", "0", ",", "x">>
    /\ ~co_result.ok
    /\ co_result.err.expected_type = Array(Scalar("F64"))

(***************************************************************************)
(* Claims about the canonicalizer (SpecSort)                               *)
(***************************************************************************)
\* the place of a key among the keys of an object
IndexOf(entries, key) == CHOOSE i \in 1..Len(entries) : entries[i].key = key

\* the group of a key: 1 for a key made of ASCII digits, 2 for "id", 3 for
\* every other key
Group(key) ==
    IF key # <<>> /\ AllDigits(key) THEN 1
    ELSE IF key = <<"i", "d">> THEN 2
    ELSE 3

\* the keys of one output object stand in the claimed order, given the
\* entries of the input object it comes from
KeysOrdered(in_entries, out_entries) ==
    \A i, j \in 1..Len(out_entries) :
        i < j =>
            LET a == out_entries[i].key
                b == out_entries[j].key
            IN  /\ Group(a) <= Group(b)
                /\ (Group(a) = 1 /\ Group(b) = 1)
                       => MagLeq(Magnitude(a), Magnitude(b))
                /\ (Group(a) = 3 /\ Group(b) = 3)
                       => IndexOf(in_entries, a) < IndexOf(in_entries, b)

SameKeys(in_entries, out_entries) ==
    /\ Len(in_entries) = Len(out_entries)
    /\ \A i \in 1..Len(in_entries) : contains_key(out_entries, in_entries[i].key)

\* every object of the output, at any depth, has its keys in the claimed order
RECURSIVE OrderedEverywhere(_, _)
OrderedEverywhere(in, out) ==
    IF in.tag = "Object"
    THEN /\ out.tag = "Object"
         /\ SameKeys(in.entries, out.entries)
         /\ KeysOrdered(in.entries, out.entries)
         /\ \A i \in 1..Len(in.entries) :
                OrderedEverywhere(in.entries[i].value,
                                  get(out.entries, in.entries[i].key))
    ELSE IF in.tag = "Array"
    THEN /\ out.tag = "Array"
         /\ Len(out.items) = Len(in.items)
         /\ \A i \in 1..Len(in.items) : OrderedEverywhere(in.items[i], out.items[i])
    ELSE TRUE

\* C4: in every object of the output of sort_json_object, at any depth, the
\* all-digit keys come first in ascending order of their numeric value, then
\* "id", then the other keys in the order the input had them.
C4_KeyOrder == so_pc = "sorted" => OrderedEverywhere(so_input, so_output)

\* only the order of object keys differs between input and output
RECURSIVE SameContent(_, _)
SameContent(in, out) ==
    IF in.tag = "Object"
    THEN /\ out.tag = "Object"
         /\ SameKeys(in.entries, out.entries)
         /\ \A i \in 1..Len(in.entries) :
                SameContent(in.entries[i].value, get(out.entries, in.entries[i].key))
    ELSE IF in.tag = "Array"
    THEN /\ out.tag = "Array"
         /\ Len(out.items) = Len(in.items)
         /\ \A i \in 1..Len(in.items) : SameContent(in.items[i], out.items[i])
    ELSE out = in

\* C5: sort_json_object changes nothing but the order of object keys: every
\* output object has the keys of its input object, each bound to the
\* canonicalized input value; an array keeps its length and the order of its
\* elements; strings, numbers, booleans and null are returned unchanged.
C5_OnlyKeyOrderChanges == so_pc = "sorted" => SameContent(so_input, so_output)

\* an object nested in an object was reordered, and so was the outer object
C5_Witness ==
    /\ so_pc = "sorted"
    /\ so_input.tag = "Object"
    /\ Len(so_input.entries) = 2
    /\ so_input.entries[1].value.tag = "Object"
    /\ Len(so_input.entries[1].value.entries) = 3
    /\ Keys(so_output.entries) # Keys(so_input.entries)
    /\ so_output.entries[2].value # so_input.entries[1].value

(***************************************************************************)
(* Claims about the parameter merge (SpecMerge)                            *)
(***************************************************************************)
\* C1: a key present both in an object body and in the query string is bound
\* in the result to the body's value, whatever the query value and whatever
\* type the catalogue declares for the key.
C1_BodyWins ==
    (me_pc = "merged" /\ me_body.tag = "Object") =>
        \A key \in DOMAIN me_query :
            contains_key(me_body.entries, key) =>
                /\ contains_key(me_result.entries, key)
                /\ get(me_result.entries, key) = get(me_body.entries, key)

\* the key limit came in the body and in the query string, with a type
\* declared for it that the query value would be coerced to
C1_Witness ==
    /\ me_pc = "merged"
    /\ me_body.tag = "Object"
    /\ contains_key(me_body.entries, K_limit)
    /\ K_limit \in DOMAIN me_query
    /\ me_query[K_limit] = V_50
    /\ K_limit \in DOMAIN me_types
    /\ me_types[K_limit] = T_U32
    /\ get(me_result.entries, K_limit) = get(me_body.entries, K_limit)

\* the keys of the object the body seeds, as the claim words it
SeededKeys(body) ==
    IF body.tag = "Object" THEN {body.entries[i].key : i \in 1..Len(body.entries)}
    ELSE IF body.tag \in {"None", "Null"} THEN {}
    ELSE {K_body}

\* C2: a query-string key absent from the seeded body object is in the result,
\* bound to the coerced value when the catalogue maps the key to a type text
\* that from_str accepts and the coercion succeeds, and to the raw text as a
\* JSON string in every other case.
C2_QueryCoercedOrRaw ==
    me_pc = "merged" =>
        /\ me_result.tag = "Object"
        /\ \A key \in DOMAIN me_query \ SeededKeys(me_body) :
               /\ contains_key(me_result.entries, key)
               /\ get(me_result.entries, key) =
                      IF /\ key \in DOMAIN me_types
                         /\ from_str(me_types[key]).ok
                         /\ to_json(me_query[key], from_str(me_types[key]).val).ok
                      THEN to_json(me_query[key], from_str(me_types[key]).val).val
                      ELSE JString(me_query[key])

\* one query parameter was coerced to a number, and another one, whose
\* coercion failed, was carried through as a string
C2_Witness ==
    /\ me_pc = "merged"
    /\ DOMAIN me_query = {K_limit, K_name}
    /\ me_query[K_limit] = V_50
    /\ me_types = MapPut(EmptyMap, K_limit, T_U32)
    /\ get(me_result.entries, K_limit) = JInt(SignedInt(FALSE, <<5, 0>>))
    /\ get(me_result.entries, K_name) = JString(me_query[K_name])

\* a query parameter whose coercion to the declared type failed
C2_WitnessFailedCoercion ==
    /\ me_pc = "merged"
    /\ K_limit \in DOMAIN me_query
    /\ me_query[K_limit] = V_abc
    /\ me_types = MapPut(EmptyMap, K_limit, T_U32)
    /\ ~contains_key(seed_params(me_body), K_limit)
    /\ get(me_result.entries, K_limit) = JString(V_abc)

\* C3: the part of the result that does not come from the query string is
\* decided by the body alone: each field of an object body with its value
\* unchanged, the single field "body" for a body that is neither null nor an
\* object, nothing for a null or absent body.
C3_BodyPart ==
    me_pc = "merged" =>
        /\ \A i \in 1..Len(me_result.entries) :
               \/ me_result.entries[i].key \in SeededKeys(me_body)
               \/ me_result.entries[i].key \in DOMAIN me_query
        /\ \A key \in SeededKeys(me_body) :
               /\ contains_key(me_result.entries, key)
               /\ get(me_result.entries, key) =
                      IF me_body.tag = "Object" THEN get(me_body.entries, key) ELSE me_body

\* an object body with a field the catalogue declares a type for, and no
\* query parameter of that name
C3_Witness ==
    /\ me_pc = "merged"
    /\ me_body.tag = "Object"
    /\ contains_key(me_body.entries, K_limit)
    /\ me_types = MapPut(EmptyMap, K_limit, T_U32)
    /\ K_limit \notin DOMAIN me_query
    /\ get(me_result.entries, K_limit) = get(me_body.entries, K_limit)

\* a body that is neither null nor an object
C3_WitnessWrapped ==
    /\ me_pc = "merged"
    /\ me_body.tag = "String"
    /\ K_body \in DOMAIN me_query
    /\ me_result = JObject(<<Entry(K_body, me_body)>>)

(***************************************************************************)
(* Claims about the coercion of float lists (SpecArray)                    *)
(***************************************************************************)
\* the element texts that denote a finite float, and the float each denotes
FiniteItemValue ==
    [t \in JsonItemTexts \cup {<<".", "5">>} |->
        CASE t = <<"1", ".", "0">> -> Finite(FALSE, <<1>>, 0)
          [] t = <<"2", ".", "5">> -> Finite(FALSE, <<2, 5>>, -1)
          [] t = <<"-", "3">> -> Finite(TRUE, <<3>>, 0)
          [] t = <<"1", "e", "5">> -> Finite(FALSE, <<1>>, 5)
          [] t = <<".", "5">> -> Finite(FALSE, <<5>>, -1)]

\* the element texts that are floats: finite, infinite or NaN
FloatItemTexts == JsonItemTexts \cup RustOnlyItemTexts

\* the element texts the JSON number grammar derives
JsonGrammarItemTexts == JsonItemTexts \cup {<<"1", "e", "9", "9", "9">>}

AllItemsIn(S) == \A i \in 1..Len(ar_items) : ar_items[i] \in S

\* the JSON numbers of the elements that denote a finite float, in order
RECURSIVE FiniteNumbers(_)
FiniteNumbers(items) ==
    IF items = <<>> THEN <<>>
    ELSE (IF Head(items) \in DOMAIN FiniteItemValue
          THEN <<JFloat(FiniteItemValue[Head(items)])>>
          ELSE <<>>) \o FiniteNumbers(Tail(items))

BothSpellingsAgree ==
    /\ ar_bracket = Ok(JArray(FiniteNumbers(ar_items)))
    /\ ar_list = ar_bracket

\* C11 as stated: for every list of finite floats, the JSON array literal and
\* the comma-separated list of the same numbers coerce to the same array, the
\* elements in input order.
C11_SpellingsAgree ==
    (ar_pc = "done" /\ AllItemsIn(JsonItemTexts)) => BothSpellingsAgree

\* C11 amended: for every list of one or more finite floats, the JSON array
\* literal and the comma-separated list of the same numbers coerce to the same
\* array, the elements in input order.
C11_SpellingsAgreeNonEmpty ==
    (ar_pc = "done" /\ AllItemsIn(JsonItemTexts) /\ ar_items # <<>>)
        => BothSpellingsAgree

C11_Witness ==
    /\ ar_pc = "done"
    /\ Len(ar_items) = 3
    /\ ar_sep = <<",", " ">>
    /\ AllItemsIn(JsonItemTexts)
    /\ ar_items[1] # ar_items[2]
    /\ ar_list.ok
    /\ Len(ar_list.val.items) = 3

\* the coercion failed with a Conversion error that carries the text and the
\* array type
IsArrayConversionError(r, text) ==
    /\ IsConversionError(r)
    /\ r.err.value = text
    /\ r.err.expected_type = Array(Scalar("F64"))

C12_WitnessRejected ==
    /\ ar_pc = "done"
    /\ Len(ar_items) = 2
    /\ ar_items[1] = <<"1", ".", "0">>
    /\ ar_items[2] = <<"i", "n", "v", "a", "l", "i", "d">>
    /\ ~ar_list.ok

\* C13: the coercion to [F64] fails with a Conversion error when the text is
\* neither a JSON array of numbers nor a comma-separated list whose every
\* element parses as a float, as for the text "invalid".
C13_NeitherFormFails ==
    ar_pc = "done" =>
        /\ (ar_items = <<>> \/ ~AllItemsIn(FloatItemTexts))
              => IsArrayConversionError(ar_list, Join(ar_items, ar_sep))
        /\ (~AllItemsIn(JsonGrammarItemTexts) /\ ar_items # << <<>> >>)
              => IsArrayConversionError(ar_bracket, ArrayLiteral(ar_items, ar_sep))

C13_Witness ==
    /\ ar_pc = "done"
    /\ ar_items = << <<"i", "n", "v", "a", "l", "i", "d">> >>
    /\ IsArrayConversionError(ar_list, <<"i", "n", "v", "a", "l", "i", "d">>)
    /\ ~ar_bracket.ok

(***************************************************************************)
(* Claims about the schema parser (SpecSchema)                             *)
(***************************************************************************)
\* the blocks of the given kinds that the text closes
ClosedBlocks(kinds) ==
    {i \in 1..Len(sc_blocks) : sc_blocks[i].closed /\ sc_blocks[i].kind \in kinds}

\* the entries of a list of the result that bear the name
Named(entries, name) == {j \in 1..Len(entries) : entries[j].name = name}

\* the text was read and holds no line that starts like a header and is none
ParsedWellFormed == sc_pc = "done" /\ sc_readable /\ ~sc_malformed

\* C14: every closed N (V) block of a schema text yields exactly one entry of
\* nodes (vectors) with its name, kind N (V) and a properties map that binds
\* each property name to its type text, [T] stored as Array<T>.
C14_NodeBlock ==
    ParsedWellFormed =>
        /\ sc_result.ok
        /\ \A i \in ClosedBlocks({"N"}) :
              \E j \in 1..Len(sc_result.val.nodes) :
                  /\ Named(sc_result.val.nodes, sc_blocks[i].name) = {j}
                  /\ sc_result.val.nodes[j].node_type = "N"
                  /\ sc_result.val.nodes[j].properties = sc_blocks[i].properties
        /\ \A i \in ClosedBlocks({"V"}) :
              \E j \in 1..Len(sc_result.val.vectors) :
                  /\ Named(sc_result.val.vectors, sc_blocks[i].name) = {j}
                  /\ sc_result.val.vectors[j].vector_type = "V"
                  /\ sc_result.val.vectors[j].properties = sc_blocks[i].properties

C14_Witness ==
    /\ ParsedWellFormed
    /\ \E i \in ClosedBlocks({"V"}) :
          /\ DOMAIN sc_blocks[i].properties = {<<"n", "a", "m", "e">>, <<"e", "m", "b">>}
          /\ sc_blocks[i].properties[<<"e", "m", "b">>] = <<"A", "r", "r", "a", "y", "<", "F", "6", "4", ">">>
    /\ ClosedBlocks({"N"}) # {}
    /\ Len(sc_result.val.vectors) = 1
    /\ Len(sc_result.val.nodes) = 1

\* the closed edge blocks that hold a From line, a To line and a Properties
\* sub-block with a property line
FullEdgeBlocks ==
    {i \in ClosedBlocks({"E"}) :
        /\ sc_blocks[i].from_node # <<>>
        /\ sc_blocks[i].to_node # <<>>
        /\ DOMAIN sc_blocks[i].properties # {}}

\* C15: every edge block with the lines From: A, To: B and a nested Properties
\* sub-block yields exactly one edge with its name, from_node = A, to_node = B
\* and one property per property line of the sub-block; the other lines of the
\* block add nothing and raise no error.
C15_EdgeBlock ==
    ParsedWellFormed =>
        /\ sc_result.ok
        /\ \A i \in FullEdgeBlocks :
              \E j \in 1..Len(sc_result.val.edges) :
                  /\ Named(sc_result.val.edges, sc_blocks[i].name) = {j}
                  /\ sc_result.val.edges[j].from_node = sc_blocks[i].from_node
                  /\ sc_result.val.edges[j].to_node = sc_blocks[i].to_node
                  /\ sc_result.val.edges[j].properties = sc_blocks[i].properties

\* the lines of the full edge blocks stand in the order From, To, Properties
EndpointsFirst ==
    \A p \in 1..Len(sc_lines) :
        sc_lines[p] = PropertiesLine =>
            \A e \in EndpointLines : \E q \in 1..(p - 1) : sc_lines[q] = e.text

\* the part of C15 the parser fulfils: edge blocks whose From and To lines
\* come before the Properties sub-block
C15_EdgeBlockEndpointsFirst == EndpointsFirst => C15_EdgeBlock

\* C16: SchemaInfo::from_file fails only when the file cannot be read: every
\* text that was read parses to a SchemaInfo.
C16_OnlyReadFails == sc_pc = "done" => (sc_result.ok <=> sc_readable)

C16_Witness ==
    /\ sc_pc = "done"
    /\ sc_readable
    /\ sc_malformed
    /\ sc_mode # "top"
    /\ InText(<<"i", "n", "v", "a", "l", "i", "d", " ", "l", "i", "n", "e">>) \/ InText(<<"N", ":", ":">>)
    /\ sc_result.ok
    /\ Len(sc_result.val.nodes) >= 1

C16_WitnessUnreadable == sc_pc = "done" /\ ~sc_readable /\ ~sc_result.ok

\* the place of a line in the text
LineOf(text) == CHOOSE p \in 1..Len(sc_lines) : sc_lines[p] = text

\* the header line of a block the writer began
HeaderOf(block) == CHOOSE h \in HeaderLines : h.name = block.name

\* the last block of the text is unterminated: no closing line follows its
\* header, and no broken header stands in the text
LastBlockOpen ==
    /\ sc_pc = "done"
    /\ sc_readable
    /\ sc_blocks # <<>>
    /\ \A text \in BrokenHeaderLines : ~InText(text)
    /\ \A p \in 1..Len(sc_lines) :
           p > LineOf(HeaderOf(sc_blocks[Len(sc_blocks)]).text)
               => sc_lines[p] # ClosingLine

\* the list of the result that holds the entries of a kind of block
EntriesOf(kind) ==
    CASE kind = "N" -> sc_result.val.nodes
      [] kind = "V" -> sc_result.val.vectors
      [] kind = "E" -> sc_result.val.edges

C25_WitnessEdge ==
    /\ LastBlockOpen
    /\ sc_blocks[Len(sc_blocks)].kind = "E"
    /\ sc_mode = "props"
    /\ \E h \in HeaderLines :
           /\ h.kind = "N"
           /\ InText(h.text)
           /\ LineOf(h.text) > LineOf(HeaderOf(sc_blocks[Len(sc_blocks)]).text)
    /\ sc_result.val.nodes = <<>>

(***************************************************************************)
(* Claims about the query parser (SpecQuery)                               *)
(***************************************************************************)
\* the file was read and its QUERY line has a parameter section
ParsedQuery == qp_pc = "done" /\ qp_shape \in {"full", "blank"}

\* the one query definition parsed from the file
TheQuery == qp_result.val[1]

\* C17: the HTTP method of a parsed query is POST when its name starts with
\* create or add, PUT when it starts with update, DELETE when it starts with
\* delete or remove, in any letter case, and GET for every other name.
C17_MethodByPrefix ==
    ParsedQuery =>
        /\ qp_result.ok
        /\ Len(qp_result.val) = 1
        /\ TheQuery.name = qp_name.text
        /\ TheQuery.http_method = qp_name.method

C17_Witness ==
    /\ ParsedQuery
    /\ qp_name.text \in {<<"A", "d", "d", "P", "o", "s", "t">>, <<"U", "P", "D", "A", "T", "E">>, <<"R", "e", "m", "o", "v", "e", "T", "a", "g">>}
    /\ TheQuery.http_method \in {"POST", "PUT", "DELETE"}

C17_WitnessGet ==
    /\ ParsedQuery
    /\ qp_name.text = <<"r", "e", "c", "r", "e", "a", "t", "e">>
    /\ TheQuery.http_method = "GET"

\* the path segments "/{p}" of the items whose name is id or ends with _id
RECURSIVE PathSegments(_)
PathSegments(items) ==
    IF items = <<>> THEN <<>>
    ELSE (IF Head(items).in_path THEN <<"/", "{">> \o Head(items).name \o <<"}">> ELSE <<>>)
             \o PathSegments(Tail(items))

\* C18: the endpoint path of a parsed query is /api/query/ followed by the
\* name in kebab case, followed by one /{p} segment for each parameter whose
\* name is id or ends with _id, in declaration order.
C18_EndpointPath ==
    ParsedQuery =>
        /\ qp_result.ok
        /\ Len(qp_result.val) = 1
        /\ TheQuery.endpoint_path
               = <<"/", "a", "p", "i", "/", "q", "u", "e", "r", "y", "/">> \o qp_name.kebab \o PathSegments(qp_items)

C18_Witness ==
    /\ ParsedQuery
    /\ qp_name.text = <<"g", "e", "t", "U", "s", "e", "r", "B", "y", "I", "d">>
    /\ Len(qp_items) = 2
    /\ qp_items[1].name = <<"u", "u", "i", "d">>
    /\ qp_items[2].name = <<"u", "s", "e", "r", "_", "i", "d">>
    /\ TheQuery.endpoint_path = <<"/", "a", "p", "i", "/", "q", "u", "e", "r", "y", "/", "g", "e", "t", "-", "u", "s", "e", "r", "-", "b", "y", "-", "i", "d", "/", "{", "u", "s", "e", "r", "_", "i", "d", "}">>

C18_WitnessTwoSegments ==
    /\ ParsedQuery
    /\ Len(qp_items) = 2
    /\ qp_items[1].name = <<"i", "d">>
    /\ qp_items[2].name = <<"u", "s", "e", "r", "_", "i", "d">>
    /\ EndsWith(TheQuery.endpoint_path, <<"/", "{", "i", "d", "}", "/", "{", "u", "s", "e", "r", "_", "i", "d", "}">>)

\* the parameters the writer expects of the items, in order
RECURSIVE ExpectedParameters(_)
ExpectedParameters(items) ==
    IF items = <<>> THEN <<>>
    ELSE (IF Head(items).kept
          THEN <<[name |-> Head(items).name, param_type |-> Head(items).type]>>
          ELSE <<>>) \o ExpectedParameters(Tail(items))

\* C19: parse_multiple returns one parameter for each item name: Type, in
\* declaration order, skips the items without ": ", stores the table image of
\* Type, and returns no parameter for an empty or blank list.
C19_Parameters ==
    ParsedQuery =>
        /\ qp_result.ok
        /\ Len(qp_result.val) = 1
        /\ TheQuery.parameters = ExpectedParameters(qp_items)

C19_Witness ==
    /\ ParsedQuery
    /\ Len(qp_items) = 2
    /\ qp_items[1].name = <<"v", "e", "c">>
    /\ ~qp_items[2].kept
    /\ TheQuery.parameters = <<[name |-> <<"v", "e", "c">>, param_type |-> <<"V", "e", "c", "<", "f", "6", "4", ">">>]>>

C19_WitnessBlank ==
    /\ qp_pc = "done"
    /\ qp_shape = "blank"
    /\ TheQuery.parameters = <<>>

\* the type names of the TypeSystem a parameter can be declared with
TypeSystemNames == {T_String, T_I32, T_I64, T_U32, T_U64, T_U128, T_F64, T_ID, <<"[", "F", "6", "4", "]">>}

\* the type name an item declares, <<>> when it is none of the TypeSystem
DeclaredType(item) ==
    IF \E t \in TypeSystemNames : EndsWith(item.text, <<" ">> \o t)
    THEN CHOOSE t \in TypeSystemNames : EndsWith(item.text, <<" ">> \o t)
    ELSE <<>>

\* the items of the line that declare a parameter with a TypeSystem type
TypedItems == {i \in 1..Len(qp_items) : qp_items[i].kept /\ DeclaredType(qp_items[i]) # <<>>}

\* the parameter the parser stored under the name of the item
StoredFor(item) ==
    TheQuery.parameters[CHOOSE j \in 1..Len(TheQuery.parameters) :
                            TheQuery.parameters[j].name = item.name]

\* the query string name=42 merged under a catalogue that gives the name the
\* stored type text
Merged42(param) ==
    merge_parameters([k \in {param.name} |-> <<"4", "2">>], NoBody,
                     [k \in {param.name} |-> param.param_type], <<param.name>>)

FortyTwo == JInt(SignedInt(FALSE, <<4, 2>>))

\* C29: the type text the query parser stores for a parameter declared with a
\* TypeSystem type name is accepted by parse_type, and under a catalogue made
\* of the stored texts merge_parameters coerces "42" of a parameter declared
\* I32 to the JSON number 42.
C29_StoredTypesParse ==
    (ParsedQuery /\ qp_result.ok) =>
        \A i \in TypedItems :
            /\ from_str(StoredFor(qp_items[i]).param_type).ok
            /\ DeclaredType(qp_items[i]) = T_I32
                   => Merged42(StoredFor(qp_items[i]))
                          = JObject(<<Entry(qp_items[i].name, FortyTwo)>>)

\* C29 as amended: the stored type text is accepted by parse_type exactly for
\* the parameters declared String, U32, U64, U128 or ID (ID is stored as
\* String); a parameter declared I32, I64, F64 or [F64] is stored as i32, i64,
\* f64 or Vec<f64>, which parse_type rejects, and under a catalogue made of
\* the stored texts merge_parameters forwards "42" of it as the JSON string
\* "42".
C29_StoredTypesPartlyParse ==
    (ParsedQuery /\ qp_result.ok) =>
        \A i \in TypedItems :
            LET declared == DeclaredType(qp_items[i])
                stored == StoredFor(qp_items[i])
            IN  /\ from_str(stored.param_type).ok
                       <=> declared \in {T_String, T_U32, T_U64, T_U128, T_ID}
                /\ declared = T_ID => stored.param_type = T_String
                /\ declared \in {T_String, T_U32, T_U64, T_U128}
                       => stored.param_type = declared
                /\ declared \in {T_I32, T_I64, T_F64, <<"[", "F", "6", "4", "]">>}
                       => /\ stored.param_type \notin TypeSystemNames
                          /\ Merged42(stored)
                                 = JObject(<<Entry(qp_items[i].name, JString(<<"4", "2">>))>>)
                /\ declared \in {T_U32, T_U64}
                       => Merged42(stored) = JObject(<<Entry(qp_items[i].name, FortyTwo)>>)

\* a line that declares an I32 parameter and a U64 parameter was parsed
C29_Witness ==
    /\ ParsedQuery
    /\ qp_result.ok
    /\ Len(qp_items) = 2
    /\ DeclaredType(qp_items[1]) = T_I32
    /\ DeclaredType(qp_items[2]) = T_U64
    /\ StoredFor(qp_items[1]).param_type = <<"i", "3", "2">>
    /\ StoredFor(qp_items[2]).param_type = T_U64

(***************************************************************************)
(* Claims about execute_query_handler (SpecExecute)                        *)
(***************************************************************************)
\* the body already binds the key: as a field of an object body, or as the
\* key "body" under which any other body that is not null is wrapped
BoundByBody(key) ==
    \/ ex_body.tag = "Object" /\ \E i \in 1..Len(ex_body.entries) :
                                     ex_body.entries[i].key = key
    \/ ex_body.tag \notin {"Object", "None", "Null"} /\ key = K_body

Binds(value, key, bound) ==
    /\ value.tag = "Object"
    /\ \E i \in 1..Len(value.entries) :
           value.entries[i].key = key /\ value.entries[i].value = bound

\* C20: when the introspection fetch fails, the parameter catalogue is empty,
\* every query-string parameter the body does not bind is forwarded as the
\* JSON string of its raw text, the query is still sent to the backing
\* service, and a successful reply of the service is answered with that
\* reply's content rather than with an error.
C20_FailedFetchDegrades ==
    (ex_pc \in {"querying", "done"} /\ ~ex_fetch.ok) =>
        /\ ex_types = EmptyMap
        /\ ex_sent.tag = "Object"
        /\ \A key \in DOMAIN ex_query :
               ~BoundByBody(key) => Binds(ex_sent, key, JString(ex_query[key]))
        /\ (ex_pc = "done" /\ ex_reply.ok /\ ex_reply.val.tag = "Object") =>
               /\ ex_response.tag = "Object"
               /\ {ex_response.entries[i] : i \in 1..Len(ex_response.entries)}
                      = {ex_reply.val.entries[i] : i \in 1..Len(ex_reply.val.entries)}
        /\ (ex_pc = "done" /\ ex_reply.ok /\ ex_reply.val.tag # "Object") =>
               ex_response = ex_reply.val

\* the fetch failed, limit=50 came in the query string of a request whose
\* body binds another key, and the service answered the query
C20_Witness ==
    /\ ex_pc = "done"
    /\ ~ex_fetch.ok
    /\ K_limit \in DOMAIN ex_query
    /\ ex_query[K_limit] = V_50
    /\ ex_body.tag = "Object"
    /\ ex_body.entries # <<>>
    /\ ~BoundByBody(K_limit)
    /\ Binds(ex_sent, K_limit, JString(V_50))
    /\ ex_reply.ok
    /\ ex_reply.val.tag = "Object"

\* C24: in an edge block the From: and To: lines are recognised wherever they
\* stand before the edge's own closing line, also behind the closing line of
\* the Properties sub-block: every closed edge block yields one edge whose
\* from_node and to_node are the names of the From: and To: lines written in
\* it.
C24_EndpointsAnywhere ==
    ParsedWellFormed =>
        \A i \in ClosedBlocks({"E"}) :
            \E j \in 1..Len(sc_result.val.edges) :
                /\ Named(sc_result.val.edges, sc_blocks[i].name) = {j}
                /\ \A e \in EndpointLines :
                       InText(e.text) => sc_result.val.edges[j][e.field] = e.name

(***************************************************************************)
(* More claims about the canonicalizer (SpecSort)                          *)
(***************************************************************************)
\* the all-digit keys of an object, in the order the object has them
NumericKeys(entries) == Keys(SelectSeq(entries, IsNumericEntry))

\* C27: within one object two distinct all-digit keys never compare equal
\* under the numeric ordering of sort_json_object.
C27_NoTies ==
    (so_pc = "sorted" /\ so_input.tag = "Object") =>
        \A i, j \in 1..Len(so_input.entries) :
            (/\ i # j
             /\ is_numeric_key(so_input.entries[i].key)
             /\ is_numeric_key(so_input.entries[j].key))
                => sort_key(so_input.entries[i].key) # sort_key(so_input.entries[j].key)

\* the number the comparison reads from an all-digit key: its value, or 0 when
\* the value is above u64::MAX
ReadAs(key) == IF MagLeq(Magnitude(key), U64_MAX) THEN Magnitude(key) ELSE Zero

\* C27 as amended: the all-digit keys of the output stand in ascending order
\* of the number the comparison reads from them, and two keys that compare
\* equal (the same number written with and without leading zeros, or numbers
\* the comparison reads as 0) keep the order the input gave them.
C27_TiesKeepInputOrder ==
    (so_pc = "sorted" /\ so_input.tag = "Object") =>
        LET in_keys == NumericKeys(so_input.entries)
            out_keys == NumericKeys(so_output.entries)
            Place(keys, k) == CHOOSE p \in 1..Len(keys) : keys[p] = k
        IN  /\ Len(out_keys) = Len(in_keys)
            /\ \A i, j \in 1..Len(out_keys) :
                   i < j =>
                       /\ MagLeq(ReadAs(out_keys[i]), ReadAs(out_keys[j]))
                       /\ ReadAs(out_keys[i]) = ReadAs(out_keys[j])
                              => Place(in_keys, out_keys[i]) < Place(in_keys, out_keys[j])

\* the keys "2" and "02" were sorted, "02" first in the input
C27_Witness ==
    /\ so_pc = "sorted"
    /\ so_input.tag = "Object"
    /\ NumericKeys(so_input.entries) = <<K_10, K_02, K_2>>
    /\ NumericKeys(so_output.entries) = <<K_02, K_2, K_10>>

\* C30: sort_json_object is idempotent: sorting its output again returns the
\* output, the key order of every object included.
C30_Idempotent == so_pc = "sorted" => sort_json_object(so_output) = so_output

\* an object whose keys were reordered, with two keys that compare equal and
\* an object nested in it
C30_Witness ==
    /\ so_pc = "sorted"
    /\ so_input.tag = "Object"
    /\ so_output # so_input
    /\ \E i, j \in 1..Len(so_input.entries) :
           /\ i # j
           /\ is_numeric_key(so_input.entries[i].key)
           /\ is_numeric_key(so_input.entries[j].key)
           /\ sort_key(so_input.entries[i].key) = sort_key(so_input.entries[j].key)

(***************************************************************************)
(* The handler's inline conversion against merge_parameters (SpecExecute)  *)
(***************************************************************************)
\* what merge_parameters returns for the inputs of the request
MergedFor(iter_order) == merge_parameters(ex_query, ex_body, ex_types, iter_order)

\* C28: the parameter object the handler builds inline equals the object
\* merge_parameters returns for the same body, query string and catalogue.
C28_HandlerEqualsMerge ==
    ex_pc \in {"querying", "done"} =>
        \E iter_order \in Orders(DOMAIN ex_query) : ex_sent = MergedFor(iter_order)

\* the text does not parse as the unsigned type named
UnsignedFails(value, type_text) ==
    \/ type_text = T_U32 /\ ~parse_u32(value).ok
    \/ type_text = T_U64 /\ ~parse_u64(value).ok
    \/ type_text = T_U128 /\ ~parse_u128(value).ok

\* the text parses as a float that is infinite or not a number
NonFinite(value) == parse_f64(value).ok /\ parse_f64(value).val.kind # "finite"

\* the entries of the two objects under a key of the query string differ as
\* the two conversions differ
DiffersAsKnown(key, inline, merged) ==
    /\ key \in DOMAIN ex_query
    /\ ~BoundByBody(key)
    /\ key \in DOMAIN ex_types
    /\ \/ /\ UnsignedFails(ex_query[key], ex_types[key])
          /\ inline = NumberZero
          /\ merged = JString(ex_query[key])
       \/ /\ ex_types[key] = T_F64
          /\ NonFinite(ex_query[key])
          /\ inline = NumberZero
          /\ merged = JString(ex_query[key])
       \/ /\ ex_types[key] = T_BracketF64
          /\ inline = JString(ex_query[key])
          /\ merged.tag = "Array"

\* C28 as amended: the two objects have the same keys in the same order and
\* the same value under every key, except under a query-string key that the
\* body does not bind and the catalogue declares U32, U64 or U128 when the
\* text does not parse as that type, or F64 when the text parses to an
\* infinite or not-a-number float (the handler sends the number 0,
\* merge_parameters the raw string), or [F64] when the text parses as a list
\* of floats (the handler sends the raw string, merge_parameters the array).
C28_HandlerEqualsMergeButKnown ==
    ex_pc \in {"querying", "done"} =>
        \E iter_order \in Orders(DOMAIN ex_query) :
            LET merged == MergedFor(iter_order)
            IN  /\ ex_sent.tag = "Object"
                /\ merged.tag = "Object"
                /\ Keys(ex_sent.entries) = Keys(merged.entries)
                /\ \A i \in 1..Len(merged.entries) :
                       \/ ex_sent.entries[i].value = merged.entries[i].value
                       \/ DiffersAsKnown(merged.entries[i].key,
                                         ex_sent.entries[i].value,
                                         merged.entries[i].value)

\* two parameters were converted under a catalogue: one declared U128 that
\* both conversions turn into the same number, one declared Array(F64)
C28_Witness ==
    /\ ex_pc = "querying"
    /\ ex_types = MapPut(MapPut(MapPut(EmptyMap, K_limit, T_U128), K_name, T_ArrayF64), K_body, T_I32)
    /\ ex_body = JNull
    /\ ex_query = MapPut(MapPut(EmptyMap, K_limit, V_50), K_name, V_2_5)
    /\ Binds(ex_sent, K_limit, JFloat(parse_f64(V_50).val))
    /\ \E iter_order \in Orders(DOMAIN ex_query) : ex_sent = MergedFor(iter_order)

\* a parameter declared U32 whose text is no number went out as 0
C28_WitnessDiffers ==
    /\ ex_pc = "querying"
    /\ K_limit \in DOMAIN ex_types
    /\ ex_types[K_limit] = T_U32
    /\ K_limit \in DOMAIN ex_query
    /\ ex_query[K_limit] = V_abc
    /\ Binds(ex_sent, K_limit, NumberZero)

(***************************************************************************)
(* Claims about the line cursor (SpecCursor)                               *)
(***************************************************************************)
InLoop == cu_pc \in {"top", "node", "vector", "edge"}

\* the parse in steps returns what from_content returns
CursorParseIsFromContent == cu_pc = "done" => cu_result = from_content(cu_lines)

\* C26: during SchemaInfo::from_content the line cursor never decreases, moves
\* on by one line in every iteration of the top-level loop and of each block
\* loop (a step that leaves the cursor in place is a loop ending at the end of
\* the lines), never exceeds the number of lines, and the parse terminates with
\* the cursor at the number of lines, for every text: its loops take at most
\* two steps a line and one more, and it returns Ok with the cursor at the end.
C26_CursorAdvances ==
    /\ [](cu_i \in 0..Len(cu_lines))
    /\ [](cu_pc = "done" => cu_result.ok /\ cu_i = Len(cu_lines))
    /\ [][InLoop => \/ cu_i' = cu_i + 1
                    \/ /\ cu_i' = cu_i
                       /\ cu_i = Len(cu_lines)
                       /\ cu_pc # cu_pc'
                       /\ cu_pc' \in {"top", "done"}]_vars
    /\ [](cu_steps <= 2 * Len(cu_lines) + 1)

\* a text with an edge block closed by the closing line of its sub-block and a
\* node block that the lines leave open was parsed to its end
C26_Witness ==
    /\ cu_pc = "done"
    /\ Len(cu_lines) = 4
    /\ cu_i = 4
    /\ Len(cu_result.val.edges) = 1
    /\ Len(cu_result.val.nodes) = 1
    /\ cu_lines[4] = <<"N", ":", ":", "U", "s", "e", "r", " ", "{">>

(***************************************************************************)
(* Claims about what the handlers hand back (SpecHandlers)                 *)
(***************************************************************************)
\* the call the schema, endpoints or inspection handler awaited has failed
HdFailed == hd_pc = "done" /\ ~hd_outcome.ok

\* the query that execute_query_handler sent has failed
ExFailed == ex_pc = "done" /\ ~ex_reply.ok

\* an object with a field "error" that holds a string
IsErrorObject(j) ==
    /\ j.tag = "Object"
    /\ \E i \in 1..Len(j.entries) :
           j.entries[i].key = K_error /\ j.entries[i].value.tag = "String"

\* C21: every failure that a handler surfaces to its caller is a JSON object
\* with an "error" string field, for schema retrieval, endpoint listing, query
\* execution and the four inspection endpoints.
C21_FailureIsErrorObject ==
    /\ HdFailed => IsErrorObject(hd_response)
    /\ ExFailed => IsErrorObject(ex_response)

EmptySchemaJson ==
    JObject(<<Entry(K_nodes, JArray(<<>>)), Entry(K_edges, JArray(<<>>)),
              Entry(K_vectors, JArray(<<>>))>>)

\* C21, amended: a failure of query execution or of one of the four inspection
\* endpoints is answered with a JSON object with an "error" string field; a
\* failure of schema retrieval is answered with the empty schema and a failure
\* of endpoint listing with the empty list, neither with an "error" field.
C21_FailureIsErrorObjectOrEmpty ==
    /\ ExFailed => IsErrorObject(ex_response)
    /\ HdFailed /\ hd_handler \in InspectionHandlers => IsErrorObject(hd_response)
    /\ HdFailed /\ hd_handler = "schema" => hd_response = EmptySchemaJson
    /\ HdFailed /\ hd_handler = "endpoints" => hd_response = JArray(<<>>)

\* a failed nodes-by-label request was answered with an error object
C21_Witness ==
    /\ HdFailed
    /\ hd_handler = "nodes-by-label"
    /\ IsErrorObject(hd_response)

\* a failed introspection fetch was answered with the empty schema
C21_WitnessSchema ==
    /\ HdFailed
    /\ hd_handler = "schema"
    /\ hd_source = "Cloud"
    /\ ~IsErrorObject(hd_response)

\* the value is what the canonicalizer makes of it
IsCanonical(j) == sort_json_object(j) = j

SchemaFields == <<K_nodes, K_edges, K_vectors>>

EndpointFields == <<<<"p", "a", "t", "h">>, <<"m", "e", "t", "h", "o", "d">>, <<"q", "u", "e", "r", "y", "_", "n", "a", "m", "e">>, <<"p", "a", "r", "a", "m", "e", "t", "e", "r", "s">>>>

C22_WitnessQuery ==
    /\ ex_pc = "done"
    /\ ex_reply.ok
    /\ ex_reply.val # ex_response
    /\ IsCanonical(ex_response)

(***************************************************************************)
(* Claims about requests handled at once (SpecConcurrent)                  *)
(***************************************************************************)
\* what request r sends when it is handled alone with its own inputs and the
\* introspection outcome it got
SentAlone(r, iter_order) ==
    JObject(handler_insert_params(handler_seed_params(cc_body[r]), cc_query[r],
                get_query_param_types(cc_fetch[r], cc_name[r]), iter_order))

\* what request r is answered when it is handled alone with the reply it got
ResponseAlone(r) == query_response(cc_reply[r], cc_name[r])

\* everything the handling of request r has read or written
LocalsOf(r) ==
    <<cc_pc[r], cc_name[r], cc_query[r], cc_body[r], cc_fetch[r], cc_sent[r],
      cc_reply[r], cc_response[r]>>

\* C23: however the requests interleave, each request sends and is answered
\* what it would be if handled alone with the same inputs and the same replies
\* of the backing service, whatever another request has met (a failed
\* introspection fetch included); and a step of one request changes nothing
\* that belongs to another.
C23_AsIfAlone ==
    /\ [](\A r \in Requests :
             /\ cc_pc[r] \in {"querying", "done"} =>
                    \E iter_order \in Orders(DOMAIN cc_query[r]) :
                        cc_sent[r] = SentAlone(r, iter_order)
             /\ cc_pc[r] = "done" => cc_response[r] = ResponseAlone(r))
    /\ [][\A r \in Requests : cc_pc'[r] = cc_pc[r] => LocalsOf(r)' = LocalsOf(r)]_vars

\* two requests for the same query with the same query string were in flight
\* together; the first met a failed introspection fetch and sent the raw text,
\* the second a good one and sent the number
C23_Witness ==
    /\ cc_pc[1] = "done" /\ cc_pc[2] = "querying"
    /\ cc_name[1] = cc_name[2]
    /\ cc_query[1] = cc_query[2]
    /\ ~cc_fetch[1].ok /\ cc_fetch[2].ok
    /\ cc_stderr # <<>>
    /\ cc_sent[1] # cc_sent[2]

====
